---- MODULE Spec2Model ----
(***************************************************************************)
(* Model of the trading service of tdex-app                                *)
(* (src/src/services/tdexService/index.ts): the order computer, the        *)
(* best-order selector and the discoverers it drives, the confidential     *)
(* input resolver, the trade executor and the market catalog builder.      *)
(***************************************************************************)
EXTENDS Integers, Sequences, FiniteSets, TLC

VARIABLES
    markets,              \* { v1: TDEXMarketV1[]; v2: TDEXMarketV2[] }
    sendAsset,            \* sentAsset / sendAsset argument ("" is a missing one)
    receiveAsset,         \* receivedAsset / receiveAsset argument
    called,               \* the pure function called last, "none" before any call
    trades,               \* the list that call returned
    pc,                   \* where discoverBestOrder and its closure stand
    thrown,               \* what discoverBestOrder threw, "none" if nothing
    allPossibleOrdersV1,  \* the V1 candidates the closure captured
    allPossibleOrdersV2,  \* the V2 candidates the closure captured
    sats,                 \* the amount the closure was invoked with
    discovererV1,         \* the V1 discoverer of this invocation, if created
    discovererV2,         \* the V2 discoverer of this invocation, if created
    discoverV1,           \* the promise of discovererV1.discover(...)
    discoverV2,           \* the promise of discovererV2.discover(...)
    previews,             \* the preview requests of the discover call in flight
    requested,            \* every preview request issued by this invocation
    reported,             \* every failure handed to an error handler
    bestOrdersV1,         \* the ranking the closure got from V1
    bestOrdersV2,         \* the ranking the closure got from V2
    closure,              \* the promise the closure returned
    logged,               \* what console.error was given
    arrived,              \* the preview requests that came back, in that order
    pset,                 \* the transaction template given to psetToUnblindedInputs
    walletStore,          \* useWalletStore.getState(): scriptDetails, outputHistory
    unblindedInputs,      \* what psetToUnblindedInputs returned
    resolverPc,           \* "idle", "start" or "returned"
    order,                \* the order makeTradeV1 / makeTradeV2 is called with
    known,                \* { amount, asset }: what the user entered
    tradeCalled,          \* "none", "makeTradeV1" or "makeTradeV2"
    tradePc,              \* where the call of makeTrade stands
    flowCalls,            \* the calls of trader.buy / trader.sell, in order
    promise,              \* the promise trader.buy / trader.sell returned
    tradeResult,          \* the promise makeTrade returned
    tradeLogged,          \* what console.error was given by makeTrade
    provider,             \* p: the provider getMarketsFromProvider is called with
    listing,              \* what that provider lists: entries { market, fee }
    catalogCalled,        \* "none", "getMarketsFromProviderV1" or "...V2"
    catalogPc,            \* where the call of getMarketsFromProvider stands
    listMarkets,          \* the promises of the calls of client.listMarkets()
    balanceRequests,      \* the markets client.getMarketBalance was called with
    balanceAnswers,       \* the promises of those calls, in the same order
    results,              \* the list the loop is filling
    catalogResult,        \* the promise getMarketsFromProvider returned
    previewArgs,          \* { order, sats, asset }: the arguments of previewTrade
    previewCalled,        \* "none", "previewTradeV1" or "previewTradeV2"
    previewPc,            \* where the call of previewTrade stands
    previewRequests,      \* what order.traderClient.previewTrade was called with
    previewResponse,      \* the promise of that request
    previewResult,        \* the promise previewTrade returned
    network,              \* the argument of getProvidersFromTDexRegistry
    registries,           \* the provider list each registry document holds
    registryPc,           \* where the call of getProvidersFromTDexRegistry stands
    fetches,              \* the URLs axios.get was called with
    fetched,              \* the promise of that request
    providersResult,      \* the promise getProvidersFromTDexRegistry returned
    tradable,             \* what getTradablesAssets returned
    tradablesPc,          \* "idle", "start", "returned" or "picked"
    form,                 \* the Withdrawal page's state that createTxAndBroadcast reads
    withdrawPc,           \* "idle", "start", the step awaited, or "ended"
    journal,              \* what createTxAndBroadcast called and how it came back, in order
    awaiting,             \* the promise createTxAndBroadcast awaits
    loading,              \* useState: loading
    modalOpen,            \* useState: modalOpen
    isWrongPin,           \* useState: isWrongPin, "null", "false" or "true"
    needReset,            \* useState: needReset
    timers,               \* the setTimeout callbacks not yet run
    toasts,               \* the toasts added, in order
    replaced,             \* the route given to history.replace, or Undefined
    isFetchingUtxos       \* appStore: isFetchingUtxos

inputs == <<markets, sendAsset, receiveAsset>>
pureCall == <<called, trades>>
captured == <<thrown, allPossibleOrdersV1, allPossibleOrdersV2>>
invocation == <<sats, discovererV1, discovererV2, discoverV1, discoverV2, previews,
                requested, reported, bestOrdersV1, bestOrdersV2, closure>>
selector == <<pc, captured, invocation, logged>>
resolver == <<pset, walletStore, unblindedInputs, resolverPc>>
executor == <<order, known, tradeCalled, tradePc, flowCalls, promise, tradeResult,
              tradeLogged>>
catalog == <<provider, listing, catalogCalled, catalogPc, listMarkets, balanceRequests,
             balanceAnswers, results, catalogResult>>
previewer == <<previewArgs, previewCalled, previewPc, previewRequests, previewResponse,
               previewResult>>
registry == <<network, registries, registryPc, fetches, fetched, providersResult>>
tradables == <<tradable, tradablesPc>>
withdrawal == <<form, withdrawPc, journal, awaiting, loading, modalOpen, isWrongPin, needReset,
                timers, toasts, replaced, isFetchingUtxos>>
rest == <<previewer, registry, tradables, withdrawal>>
beyond == <<arrived, resolver, executor, catalog, rest>>
core == <<inputs, pureCall, selector, arrived, resolver, executor, catalog>>

vars == <<inputs, pureCall, selector, beyond>>

(***************************************************************************)
(* Bounds of the model.                                                    *)
(***************************************************************************)
MaxMarkets == 2           \* longest market list of one protocol version
MaxQuote == 2             \* largest amount a preview quotes
MaxBalance == 2           \* largest liquidity balance of a market
MaxInputs == 3            \* most inputs of a transaction template
MaxListing == 3           \* most entries a provider lists
MaxProviders == 2         \* most providers a registry document lists

Assets == {"A", "B"}
NoAsset == ""             \* an undefined or empty asset argument
AssetArgs == Assets \cup {NoAsset}

\* Amounts the closure is invoked with: it only tests whether sats <= 0.
SatsArgs == {0 - 1, 0, 1}

SELL == "SELL"
BUY == "BUY"

(***************************************************************************)
(* A market of the catalog: the provider it was listed by and its pair.    *)
(* The provider of the i-th market of a list is i, so that two markets     *)
(* with the same pair are still two markets.  The catalogs of this model   *)
(* list markets of equal liquidity.                                        *)
(***************************************************************************)
Pairs == [baseAsset : Assets, quoteAsset : Assets]

MarketAt(i, pair) ==
    [provider |-> i, baseAsset |-> pair.baseAsset, quoteAsset |-> pair.quoteAsset,
     balance |-> 1]

\* The same with any liquidity.
LiquidMarketAt(i, m) ==
    [provider |-> i, baseAsset |-> m.baseAsset, quoteAsset |-> m.quoteAsset,
     balance |-> m.balance]

LiquidMarketLists(kinds, n) ==
    UNION { { [i \in 1..k |-> LiquidMarketAt(i, f[i])] : f \in [1..k -> kinds] } : k \in 0..n }

MarketLists(pairs, n) ==
    UNION { { [i \in 1..k |-> MarketAt(i, f[i])] : f \in [1..k -> pairs] } : k \in 0..n }

(***************************************************************************)
(* createTraderClientV1 / createTraderClientV2: a client handle bound to   *)
(* the endpoint of the market's provider.                                  *)
(***************************************************************************)
createTraderClientV1(endpoint) == [version |-> 1, providerUrl |-> endpoint]

createTraderClientV2(endpoint) == [version |-> 2, providerUrl |-> endpoint]

(***************************************************************************)
(* computeOrdersV1: the loop over the markets, with its two independent    *)
(* tests, each pushing an order.                                           *)
(***************************************************************************)
RECURSIVE computeOrdersV1From(_, _, _, _, _)
computeOrdersV1From(mkts, i, sentAsset, receivedAsset, acc) ==
    IF i > Len(mkts) THEN acc
    ELSE LET market == mkts[i]
             afterSell ==
                 IF sentAsset = market.baseAsset /\ receivedAsset = market.quoteAsset
                 THEN Append(acc, [market |-> market, type |-> SELL,
                                   traderClient |-> createTraderClientV1(market.provider)])
                 ELSE acc
             afterBuy ==
                 IF sentAsset = market.quoteAsset /\ receivedAsset = market.baseAsset
                 THEN Append(afterSell, [market |-> market, type |-> BUY,
                                   traderClient |-> createTraderClientV1(market.provider)])
                 ELSE afterSell
         IN computeOrdersV1From(mkts, i + 1, sentAsset, receivedAsset, afterBuy)

\* A slip that tags the two directions the wrong way round.
computeOrdersV1Swapped(mkts, sentAsset, receivedAsset) ==
    LET right == computeOrdersV1From(mkts, 1, sentAsset, receivedAsset, <<>>)
    IN [k \in 1..Len(right) |->
          [right[k] EXCEPT !.type = IF right[k].type = SELL THEN BUY ELSE SELL]]

\* A slip that puts each order at the front of the list.
computeOrdersV1Unshift(mkts, sentAsset, receivedAsset) ==
    LET pushed == computeOrdersV1From(mkts, 1, sentAsset, receivedAsset, <<>>)
    IN [k \in 1..Len(pushed) |-> pushed[Len(pushed) + 1 - k]]

computeOrdersV1(mkts, sentAsset, receivedAsset) ==
    computeOrdersV1From(mkts, 1, sentAsset, receivedAsset, <<>>)

RECURSIVE computeOrdersV2From(_, _, _, _, _)
computeOrdersV2From(mkts, i, sentAsset, receivedAsset, acc) ==
    IF i > Len(mkts) THEN acc
    ELSE LET market == mkts[i]
             afterSell ==
                 IF sentAsset = market.baseAsset /\ receivedAsset = market.quoteAsset
                 THEN Append(acc, [market |-> market, type |-> SELL,
                                   traderClient |-> createTraderClientV2(market.provider)])
                 ELSE acc
             afterBuy ==
                 IF sentAsset = market.quoteAsset /\ receivedAsset = market.baseAsset
                 THEN Append(afterSell, [market |-> market, type |-> BUY,
                                   traderClient |-> createTraderClientV2(market.provider)])
                 ELSE afterSell
         IN computeOrdersV2From(mkts, i + 1, sentAsset, receivedAsset, afterBuy)

computeOrdersV2(mkts, sentAsset, receivedAsset) ==
    computeOrdersV2From(mkts, 1, sentAsset, receivedAsset, <<>>)

(***************************************************************************)
(* JavaScript values the selector handles: a missing array element, the    *)
(* ?? operator, promises.                                                  *)
(***************************************************************************)
Undefined == [type |-> "undefined"]

First(list) == IF Len(list) = 0 THEN Undefined ELSE list[1]

Nullish(a, b) == IF a = Undefined THEN b ELSE a

SeqRange(list) == {list[k] : k \in 1..Len(list)}

NoPromise == [state |-> "none"]
Pending == [state |-> "pending"]
Fulfilled(v) == [state |-> "fulfilled", value |-> v]
Rejected(e) == [state |-> "rejected", reason |-> e]

Settled(p) == p.state \in {"fulfilled", "rejected"}

(***************************************************************************)
(* The discoverers.  createDiscovererV1 / createDiscovererV2 hand their    *)
(* three arguments to the Discoverer class of ./v1/discoverer and          *)
(* ./v2/discoverer.                                                        *)
(***************************************************************************)
NoDiscoverer == [version |-> 0]
NoHandler == "none"
ConsoleDebug == "console.debug"

\* A slip that forgets to pass the error handler on.
createDiscovererV1NoHandler(orders, discovery, errorHandler) ==
    [version |-> 1, orders |-> orders, discovery |-> discovery, errorHandler |-> NoHandler]

createDiscovererV1(orders, discovery, errorHandler) ==
    [version |-> 1, orders |-> orders, discovery |-> discovery, errorHandler |-> errorHandler]

\* A slip that ranks the V2 candidates by liquidity alone.
createDiscovererV2ByBalance(orders, discovery, errorHandler) ==
    [version |-> 2, orders |-> orders, discovery |-> <<"bestBalance">>,
     errorHandler |-> errorHandler]

createDiscovererV2(orders, discovery, errorHandler) ==
    [version |-> 2, orders |-> orders, discovery |-> discovery, errorHandler |-> errorHandler]

\* combineDiscovery(bestPriceDiscovery, bestBalanceDiscovery): the chain of
\* strategies, applied left to right.
combineDiscovery(first, second) == <<first, second>>

(***************************************************************************)
(* Discoverer.discover, after the design of the Discoverer: one preview    *)
(* request per candidate, all issued at once; each fails or yields a       *)
(* quote; the survivors are ranked by the policy, ties in candidate order. *)
(***************************************************************************)
PreviewPending == [status |-> "pending"]
PreviewFailed == [status |-> "failed"]
PreviewOk(q) == [status |-> "ok", amount |-> q]

IssuePreviews(discoverer) == [i \in 1..Len(discoverer.orders) |-> PreviewPending]

Survivors(pv) == {i \in DOMAIN pv : pv[i].status = "ok"}

AllSettled(pv) == \A i \in DOMAIN pv : pv[i].status # "pending"

\* -1, 0 or 1: what one strategy says of candidates i and j (1: i is better).
Strategy(name, orders, pv, i, j) ==
    IF name = "bestPrice"
    THEN IF pv[i].amount > pv[j].amount THEN 1
         ELSE IF pv[i].amount < pv[j].amount THEN -1 ELSE 0
    ELSE IF orders[i].market.balance > orders[j].market.balance THEN 1
         ELSE IF orders[i].market.balance < orders[j].market.balance THEN -1 ELSE 0

RECURSIVE Prefers(_, _, _, _, _, _)
Prefers(discovery, k, orders, pv, i, j) ==
    IF k > Len(discovery) THEN FALSE
    ELSE LET d == Strategy(discovery[k], orders, pv, i, j)
         IN IF d = 0 THEN Prefers(discovery, k + 1, orders, pv, i, j) ELSE d = 1

\* i enters the ranking before the first candidate it is strictly better than.
RECURSIVE InsertRanked(_, _, _, _, _)
InsertRanked(ranked, i, discovery, orders, pv) ==
    IF ranked = <<>> THEN <<i>>
    ELSE IF Prefers(discovery, 1, orders, pv, i, Head(ranked))
         THEN <<i>> \o ranked
         ELSE <<Head(ranked)>> \o InsertRanked(Tail(ranked), i, discovery, orders, pv)

RECURSIVE RankFrom(_, _, _, _, _)
RankFrom(i, ranked, discovery, orders, pv) ==
    IF i > Len(orders) THEN ranked
    ELSE RankFrom(i + 1,
                  IF pv[i].status = "ok"
                  THEN InsertRanked(ranked, i, discovery, orders, pv) ELSE ranked,
                  discovery, orders, pv)

\* A discover that reads the top of its ranking without looking at its length.
DiscoverResultTopless(discoverer, pv) ==
    LET ranked == RankFrom(1, <<>>, discoverer.discovery, discoverer.orders, pv)
    IN IF ranked = <<>> THEN Rejected("no preview")
       ELSE Fulfilled([k \in 1..Len(ranked) |-> discoverer.orders[ranked[k]]])

\* A discover that collects the previews as they come back and sorts that
\* list, so that equals stay in the order of arrival.
DiscoverResultByArrival(discoverer, pv) ==
    LET RECURSIVE Collect(_, _)
        Collect(k, ranked) ==
            IF k > Len(arrived) THEN ranked
            ELSE Collect(k + 1,
                         IF pv[arrived[k]].status = "ok"
                         THEN InsertRanked(ranked, arrived[k], discoverer.discovery,
                                           discoverer.orders, pv)
                         ELSE ranked)
        ranked == Collect(1, <<>>)
    IN Fulfilled([k \in 1..Len(ranked) |-> discoverer.orders[ranked[k]]])

DiscoverResult(discoverer, pv) ==
    LET ranked == RankFrom(1, <<>>, discoverer.discovery, discoverer.orders, pv)
    IN Fulfilled([k \in 1..Len(ranked) |-> discoverer.orders[ranked[k]]])

(***************************************************************************)
(* discoverBestOrder and the closure it returns.                           *)
(***************************************************************************)
SelectorIdle ==
    /\ pc = "start"
    /\ thrown = "none"
    /\ allPossibleOrdersV1 = <<>>
    /\ allPossibleOrdersV2 = <<>>
    /\ sats = 0
    /\ discovererV1 = NoDiscoverer
    /\ discovererV2 = NoDiscoverer
    /\ discoverV1 = NoPromise
    /\ discoverV2 = NoPromise
    /\ previews = <<>>
    /\ requested = {}
    /\ reported = {}
    /\ bestOrdersV1 = <<>>
    /\ bestOrdersV2 = <<>>
    /\ closure = NoPromise
    /\ logged = {}

NoMarketsAvailableForSelectedPairError == "NoMarketsAvailableForSelectedPairError"
UnableToComputeOrders == "unable to compute orders for selected market"
ZeroBestOrders == "zero best orders found by discoverer"
PolicyError == "discovery policy raised"

\* The state of what the selector does not touch.
ResolverIdle ==
    /\ pset = [inputs |-> <<>>]
    /\ walletStore = [scriptDetails |-> <<>>, outputHistory |-> <<>>]
    /\ unblindedInputs = <<>>
    /\ resolverPc = "idle"

ExecutorIdle ==
    /\ order = Undefined
    /\ known = Undefined
    /\ tradeCalled = "none"
    /\ tradePc = "idle"
    /\ flowCalls = <<>>
    /\ promise = NoPromise
    /\ tradeResult = NoPromise
    /\ tradeLogged = <<>>

CatalogIdle ==
    /\ provider = Undefined
    /\ listing = <<>>
    /\ catalogCalled = "none"
    /\ catalogPc = "idle"
    /\ listMarkets = <<>>
    /\ balanceRequests = <<>>
    /\ balanceAnswers = <<>>
    /\ results = <<>>
    /\ catalogResult = NoPromise

PreviewerIdle ==
    /\ previewArgs = Undefined
    /\ previewCalled = "none"
    /\ previewPc = "idle"
    /\ previewRequests = <<>>
    /\ previewResponse = NoPromise
    /\ previewResult = NoPromise

RegistryIdle ==
    /\ network = ""
    /\ registries = Undefined
    /\ registryPc = "idle"
    /\ fetches = <<>>
    /\ fetched = NoPromise
    /\ providersResult = NoPromise

TradablesIdle ==
    /\ tradable = <<>>
    /\ tradablesPc = "idle"

WithdrawalIdle ==
    /\ form = [type |-> "none"]
    /\ withdrawPc = "idle"
    /\ journal = <<>>
    /\ awaiting = NoPromise
    /\ loading = FALSE
    /\ modalOpen = FALSE
    /\ isWrongPin = "null"
    /\ needReset = FALSE
    /\ timers = {}
    /\ toasts = <<>>
    /\ replaced = Undefined
    /\ isFetchingUtxos = FALSE

RestIdle ==
    /\ PreviewerIdle
    /\ RegistryIdle
    /\ TradablesIdle
    /\ WithdrawalIdle

BeyondIdle ==
    /\ arrived = <<>>
    /\ ResolverIdle
    /\ ExecutorIdle
    /\ CatalogIdle
    /\ RestIdle

\* Line 359: a missing or empty asset.
MissingAsset(send, receive) == send = NoAsset \/ receive = NoAsset

\* A test of the catalog where the candidates were meant.
NoCandidatesOfCatalog(mkts, ordersV1, ordersV2) == Len(mkts.v1) = 0 /\ Len(mkts.v2) = 0

\* Line 362.
NoCandidates(mkts, ordersV1, ordersV2) == Len(ordersV1) = 0 /\ Len(ordersV2) = 0

CallDiscoverBestOrder ==
    /\ pc = "start"
    /\ IF MissingAsset(sendAsset, receiveAsset)
       THEN /\ thrown' = UnableToComputeOrders
            /\ pc' = "threw"
            /\ UNCHANGED <<allPossibleOrdersV1, allPossibleOrdersV2, logged>>
       ELSE LET ordersV1 == computeOrdersV1(markets.v1, sendAsset, receiveAsset)
                ordersV2 == computeOrdersV2(markets.v2, sendAsset, receiveAsset)
            IN IF NoCandidates(markets, ordersV1, ordersV2)
               THEN /\ thrown' = NoMarketsAvailableForSelectedPairError
                    /\ logged' = {"markets not found for pair"}
                    /\ pc' = "threw"
                    /\ UNCHANGED <<allPossibleOrdersV1, allPossibleOrdersV2>>
               ELSE /\ allPossibleOrdersV1' = ordersV1
                    /\ allPossibleOrdersV2' = ordersV2
                    /\ pc' = "closure"
                    /\ UNCHANGED <<thrown, logged>>
    /\ UNCHANGED <<inputs, beyond, pureCall, invocation>>

\* A placeholder that looks at V2 first.
PlaceholderOrderV2First(ordersV1, ordersV2) == Nullish(First(ordersV2), First(ordersV1))

\* Line 369.
PlaceholderOrder(ordersV1, ordersV2) == Nullish(First(ordersV1), First(ordersV2))

\* A catch block that passes the error on.
OnDiscoveryErrorRethrow(ordersV1, ordersV2, err) == Rejected(err)

\* Lines 387-390.
OnDiscoveryError(ordersV1, ordersV2, err) == Fulfilled(First(ordersV1))

\* A selection that looks at V1 first.
SelectBestV1First(bestV1, bestV2) == Nullish(First(bestV1), First(bestV2))

\* Line 386.
SelectBest(bestV1, bestV2) == Nullish(First(bestV2), First(bestV1))

\* Lines 366-382: the closure up to its first await.
InvokeClosure ==
    /\ pc \in {"closure", "resolved"}
    /\ \E s \in SatsArgs :
        /\ sats' = s
        /\ logged' = {}
        /\ reported' = {}
        /\ bestOrdersV1' = <<>>
        /\ bestOrdersV2' = <<>>
        /\ discoverV2' = NoPromise
        /\ IF s <= 0
           THEN /\ closure' = Fulfilled(PlaceholderOrder(allPossibleOrdersV1, allPossibleOrdersV2))
                /\ pc' = "resolved"
                /\ discovererV1' = NoDiscoverer
                /\ discovererV2' = NoDiscoverer
                /\ discoverV1' = NoPromise
                /\ previews' = <<>>
                /\ requested' = {}
           ELSE LET dV1 == createDiscovererV1(allPossibleOrdersV1,
                               combineDiscovery("bestPrice", "bestBalance"), ConsoleDebug)
                    dV2 == createDiscovererV2(allPossibleOrdersV2,
                               combineDiscovery("bestPrice", "bestBalance"), ConsoleDebug)
                IN /\ discovererV1' = dV1
                   /\ discovererV2' = dV2
                   /\ discoverV1' = Pending
                   /\ previews' = IssuePreviews(dV1)
                   /\ requested' = {<<1, i>> : i \in 1..Len(dV1.orders)}
                   /\ closure' = Pending
                   /\ pc' = "awaitV1"
    /\ UNCHANGED <<inputs, beyond, pureCall, captured>>

\* The discover call in flight, and its discoverer.
InFlight ==
    IF pc = "awaitV1" /\ discoverV1 = Pending THEN 1
    ELSE IF pc = "awaitV2" /\ discoverV2 = Pending THEN 2 ELSE 0

CurrentDiscoverer == IF InFlight = 1 THEN discovererV1 ELSE discovererV2

\* Preview request i of the discover call in flight comes back.
PreviewSettlesAt(i) ==
    /\ InFlight # 0
    /\ i \in DOMAIN previews
    /\ previews[i] = PreviewPending
    /\ \/ /\ \E q \in 1..MaxQuote : previews' = [previews EXCEPT ![i] = PreviewOk(q)]
          /\ UNCHANGED reported
       \/ /\ previews' = [previews EXCEPT ![i] = PreviewFailed]
          /\ reported' = IF CurrentDiscoverer.errorHandler = NoHandler THEN reported
                         ELSE reported \cup {<<InFlight, i>>}
    /\ UNCHANGED <<inputs, pureCall, pc, captured, sats, discovererV1, discovererV2,
                   discoverV1, discoverV2, requested, bestOrdersV1, bestOrdersV2, closure,
                   logged>>

\* One preview request of the discover call in flight comes back.
PreviewSettles ==
    /\ \E i \in DOMAIN previews : PreviewSettlesAt(i)
    /\ UNCHANGED beyond

\* The same, keeping the order in which the requests come back.
PreviewArrives ==
    \E i \in DOMAIN previews :
        /\ PreviewSettlesAt(i)
        /\ arrived' = Append(arrived, i)
        /\ UNCHANGED <<resolver, executor, catalog, rest>>

\* Every preview request is back: the discover call returns its ranking, or
\* the policy raises while it compares two survivors.
DiscoverReturns ==
    /\ InFlight # 0
    /\ AllSettled(previews)
    /\ \E outcome \in {DiscoverResult(CurrentDiscoverer, previews)}
                       \cup (IF Cardinality(Survivors(previews)) >= 2
                             THEN {Rejected(PolicyError)} ELSE {}) :
        IF InFlight = 1
        THEN discoverV1' = outcome /\ UNCHANGED discoverV2
        ELSE discoverV2' = outcome /\ UNCHANGED discoverV1
    /\ UNCHANGED <<inputs, beyond, pureCall, pc, captured, sats, discovererV1, discovererV2,
                   previews, requested, reported, bestOrdersV1, bestOrdersV2, closure,
                   logged>>

\* Lines 382-383: the closure resumes with the V1 ranking and calls the V2
\* discoverer, or lands in its catch block.
ResumeAfterV1 ==
    /\ pc = "awaitV1"
    /\ Settled(discoverV1)
    /\ IF discoverV1.state = "rejected"
       THEN /\ closure' = OnDiscoveryError(allPossibleOrdersV1, allPossibleOrdersV2,
                                           discoverV1.reason)
            /\ logged' = {discoverV1.reason}
            /\ pc' = "resolved"
            /\ UNCHANGED <<bestOrdersV1, discoverV2, previews, requested>>
       ELSE /\ bestOrdersV1' = discoverV1.value
            /\ discoverV2' = Pending
            /\ previews' = IssuePreviews(discovererV2)
            /\ requested' = requested \cup {<<2, i>> : i \in 1..Len(discovererV2.orders)}
            /\ pc' = "awaitV2"
            /\ UNCHANGED <<closure, logged>>
    /\ UNCHANGED <<inputs, beyond, pureCall, captured, sats, discovererV1, discovererV2,
                   discoverV1, reported, bestOrdersV2>>

\* Lines 383-390: the closure resumes with the V2 ranking and settles.
ResumeAfterV2 ==
    /\ pc = "awaitV2"
    /\ Settled(discoverV2)
    /\ pc' = "resolved"
    /\ IF discoverV2.state = "rejected"
       THEN /\ closure' = OnDiscoveryError(allPossibleOrdersV1, allPossibleOrdersV2,
                                           discoverV2.reason)
            /\ logged' = {discoverV2.reason}
            /\ UNCHANGED bestOrdersV2
       ELSE /\ bestOrdersV2' = discoverV2.value
            /\ IF Len(bestOrdersV1) = 0 /\ Len(discoverV2.value) = 0
               THEN /\ closure' = OnDiscoveryError(allPossibleOrdersV1, allPossibleOrdersV2,
                                                   ZeroBestOrders)
                    /\ logged' = {ZeroBestOrders}
               ELSE /\ closure' = Fulfilled(SelectBest(bestOrdersV1, discoverV2.value))
                    /\ UNCHANGED logged
    /\ UNCHANGED <<inputs, beyond, pureCall, captured, sats, discovererV1, discovererV2,
                   discoverV1, discoverV2, previews, requested, reported, bestOrdersV1>>

(***************************************************************************)
(* The order computer on its own: any catalog of at most MaxMarkets        *)
(* markets per version, any pair, and a call of either version.            *)
(***************************************************************************)
InitOrders ==
    /\ markets \in [v1 : MarketLists(Pairs, MaxMarkets), v2 : MarketLists(Pairs, MaxMarkets)]
    /\ sendAsset \in AssetArgs
    /\ receiveAsset \in AssetArgs
    /\ called = "none"
    /\ trades = <<>>
    /\ SelectorIdle
    /\ BeyondIdle

CallComputeOrdersV1 ==
    /\ called' = "computeOrdersV1"
    /\ trades' = computeOrdersV1(markets.v1, sendAsset, receiveAsset)
    /\ UNCHANGED <<inputs, beyond, selector>>

CallComputeOrdersV2 ==
    /\ called' = "computeOrdersV2"
    /\ trades' = computeOrdersV2(markets.v2, sendAsset, receiveAsset)
    /\ UNCHANGED <<inputs, beyond, selector>>

NextOrders == CallComputeOrdersV1 \/ CallComputeOrdersV2

SpecOrders == InitOrders /\ [][NextOrders]_vars

(***************************************************************************)
(* Properties of the order computer, checked under SpecOrders.             *)
(***************************************************************************)
SellMatch(m) == sendAsset = m.baseAsset /\ receiveAsset = m.quoteAsset

BuyMatch(m) == sendAsset = m.quoteAsset /\ receiveAsset = m.baseAsset

CalledMarkets == IF called = "computeOrdersV1" THEN markets.v1 ELSE markets.v2

CalledVersion == IF called = "computeOrdersV1" THEN 1 ELSE 2

OrdersOf(list, m) == {k \in 1..Len(list) : list[k].market = m}

\* C1: a call of computeOrdersV1/V2 returns exactly one order for each market
\* of its list that matches the pair in either direction and none for a market
\* that matches neither, so no market contributes two orders.
C1_OneOrderPerMatchingMarket ==
    called # "none" =>
        \A i \in 1..Len(CalledMarkets) :
            Cardinality(OrdersOf(trades, CalledMarkets[i])) =
                IF SellMatch(CalledMarkets[i]) \/ BuyMatch(CalledMarkets[i]) THEN 1 ELSE 0

\* C2, as claimed: every order returned is SELL if and only if the pair is
\* (base, quote) of its market, and BUY if and only if it is (quote, base).
C2_DirectionIff ==
    called # "none" =>
        \A k \in 1..Len(trades) :
            /\ trades[k].type = SELL <=> SellMatch(trades[k].market)
            /\ trades[k].type = BUY <=> BuyMatch(trades[k].market)

\* C2, amended: every order returned is for a market of the list and through a
\* client of that market's provider; it is SELL only if the pair is (base,
\* quote) of its market and BUY only if it is (quote, base), and it is exactly
\* the direction that matches whenever the market does not match both.
C2_DirectionAgrees ==
    called # "none" =>
        \A k \in 1..Len(trades) :
            LET o == trades[k] IN
            /\ o.market \in SeqRange(CalledMarkets)
            /\ o.traderClient = [version |-> CalledVersion, providerUrl |-> o.market.provider]
            /\ o.type \in {SELL, BUY}
            /\ o.type = SELL => SellMatch(o.market)
            /\ o.type = BUY => BuyMatch(o.market)
            /\ ~(SellMatch(o.market) /\ BuyMatch(o.market)) =>
                   /\ o.type = SELL <=> SellMatch(o.market)
                   /\ o.type = BUY <=> BuyMatch(o.market)

\* A call of computeOrdersV1 that returned a SELL and a BUY order for two
\* markets listing the pair one way and the other.
C2_Witness ==
    /\ called = "computeOrdersV1"
    /\ sendAsset # receiveAsset
    /\ \E j, k \in 1..Len(trades) : trades[j].type = SELL /\ trades[k].type = BUY

\* The place in the list the call was given of the market of an order.
MarketPlace(tradeOrder) ==
    CHOOSE i \in 1..Len(CalledMarkets) : CalledMarkets[i] = tradeOrder.market

\* C19: the orders of a call of computeOrdersV1/V2 stand in the order of their
\* markets in the list given: of two orders, the one whose market is earlier
\* in the input is earlier in the output.
C19_OrdersInMarketOrder ==
    called # "none" =>
        \A a, b \in 1..Len(trades) :
            /\ trades[a].market \in SeqRange(CalledMarkets)
            /\ MarketPlace(trades[a]) < MarketPlace(trades[b]) => a < b

\* A call that returned orders of two markets, a BUY of the first and a SELL
\* of the second.
C19_Witness ==
    /\ called = "computeOrdersV1"
    /\ Len(markets.v1) = 2
    /\ Len(trades) = 2
    /\ trades[1].market = markets.v1[1] /\ trades[1].type = BUY
    /\ trades[2].market = markets.v1[2] /\ trades[2].type = SELL

(***************************************************************************)
(* The best-order selector: discoverBestOrder on any catalog and pair,     *)
(* then its closure, invoked any number of times.  A market trades A for   *)
(* B, B for A, or A for itself; the market that lists one asset twice and  *)
(* is asked for that asset both ways, which yields two orders, is left to  *)
(* SpecOrders.                                                             *)
(***************************************************************************)
SelectorPairs == {p \in Pairs : p.baseAsset # "B" \/ p.quoteAsset # "B"}

Init ==
    /\ markets \in [v1 : MarketLists(SelectorPairs, MaxMarkets),
                    v2 : MarketLists(SelectorPairs, MaxMarkets)]
    /\ sendAsset \in AssetArgs
    /\ receiveAsset \in AssetArgs
    /\ \A m \in SeqRange(markets.v1) \cup SeqRange(markets.v2) :
           ~(m.baseAsset = m.quoteAsset /\ sendAsset = m.baseAsset
                                        /\ receiveAsset = m.baseAsset)
    /\ called = "none"
    /\ trades = <<>>
    /\ SelectorIdle
    /\ BeyondIdle

Next ==
    \/ CallDiscoverBestOrder
    \/ InvokeClosure
    \/ PreviewSettles
    \/ DiscoverReturns
    \/ ResumeAfterV1
    \/ ResumeAfterV2

Spec == Init /\ [][Next]_vars

(***************************************************************************)
(* Properties of the best-order selector, checked under Spec.              *)
(***************************************************************************)
Candidates == SeqRange(allPossibleOrdersV1) \cup SeqRange(allPossibleOrdersV2)

\* The discover call of version v has returned and the closure has not yet
\* resumed: previews holds the outcome of each of its requests.
Returned(v) ==
    \/ v = 1 /\ pc = "awaitV1" /\ Settled(discoverV1)
    \/ v = 2 /\ pc = "awaitV2" /\ Settled(discoverV2)

DiscoverOf(v) == IF v = 1 THEN discoverV1 ELSE discoverV2

DiscovererOf(v) == IF v = 1 THEN discovererV1 ELSE discovererV2

FailedPreviews == {i \in DOMAIN previews : previews[i] = PreviewFailed}

\* C3: once discoverBestOrder has returned its closure, every invocation of
\* the closure resolves to a defined order that is one of the V1 or V2
\* candidates computed at construction.
C3_ResolvesToCandidate ==
    pc = "resolved" =>
        /\ closure.state = "fulfilled"
        /\ closure.value # Undefined
        /\ closure.value \in Candidates

\* C4: invoked with sats > 0 the closure never rejects, and when a discover
\* call threw or both rankings came back empty the error is logged and the
\* closure resolves to allPossibleOrdersV1[0].
C4_DiscoveryErrorFallsBack ==
    /\ closure.state # "rejected"
    /\ (pc = "resolved" /\ sats > 0) =>
          /\ closure.state = "fulfilled"
          /\ discoverV1.state = "rejected" =>
                 /\ closure.value = First(allPossibleOrdersV1)
                 /\ logged = {discoverV1.reason}
          /\ discoverV2.state = "rejected" =>
                 /\ closure.value = First(allPossibleOrdersV1)
                 /\ logged = {discoverV2.reason}
          /\ (discoverV1 = Fulfilled(<<>>) /\ discoverV2 = Fulfilled(<<>>)) =>
                 /\ closure.value = First(allPossibleOrdersV1)
                 /\ logged = {ZeroBestOrders}

\* An invocation with sats > 0 in which every preview failed, resolved to the
\* first of the V1 candidates.
C4_Witness ==
    /\ pc = "resolved"
    /\ sats > 0
    /\ discoverV1 = Fulfilled(<<>>)
    /\ discoverV2 = Fulfilled(<<>>)
    /\ Len(allPossibleOrdersV1) > 0
    /\ Len(allPossibleOrdersV2) > 0
    /\ closure = Fulfilled(allPossibleOrdersV1[1])

\* C5: discoverBestOrder called for a pair that no V1 and no V2 market lists
\* in either direction throws NoMarketsAvailableForSelectedPairError, returns
\* no closure, creates no discoverer and issues no request.
C5_NoMarketsThrows ==
    (/\ pc # "start"
     /\ ~MissingAsset(sendAsset, receiveAsset)
     /\ \A m \in SeqRange(markets.v1) \cup SeqRange(markets.v2) :
            ~SellMatch(m) /\ ~BuyMatch(m)) =>
        /\ pc = "threw"
        /\ thrown = NoMarketsAvailableForSelectedPairError
        /\ closure = NoPromise
        /\ discovererV1 = NoDiscoverer
        /\ discovererV2 = NoDiscoverer
        /\ discoverV1 = NoPromise
        /\ discoverV2 = NoPromise
        /\ requested = {}

\* discoverBestOrder threw for want of a market of the pair, on a catalog
\* that lists markets in both versions.
C5_Witness ==
    /\ pc = "threw"
    /\ thrown = NoMarketsAvailableForSelectedPairError
    /\ Len(markets.v1) > 0
    /\ Len(markets.v2) > 0

\* C6: invoked with sats <= 0 the closure creates no discoverer, issues no
\* preview request and resolves to the first V1 candidate if there is one,
\* otherwise to the first V2 candidate.
C6_PlaceholderWithoutDiscovery ==
    (pc = "resolved" /\ sats <= 0) =>
        /\ discovererV1 = NoDiscoverer
        /\ discovererV2 = NoDiscoverer
        /\ discoverV1 = NoPromise
        /\ discoverV2 = NoPromise
        /\ requested = {}
        /\ closure = Fulfilled(IF Len(allPossibleOrdersV1) > 0
                               THEN allPossibleOrdersV1[1] ELSE allPossibleOrdersV2[1])

\* An invocation with sats <= 0 where both versions have candidates.
C6_Witness ==
    /\ pc = "resolved"
    /\ sats <= 0
    /\ Len(allPossibleOrdersV1) > 0
    /\ Len(allPossibleOrdersV2) > 0
    /\ closure = Fulfilled(allPossibleOrdersV1[1])

\* C7: invoked with sats > 0, when both discover calls returned, the closure
\* resolves to the top V2 order if the V2 ranking is not empty, whatever the
\* V1 ranking; to the top V1 order only if the V2 ranking is empty and the V1
\* ranking is not.
C7_PrefersV2 ==
    (/\ pc = "resolved"
     /\ sats > 0
     /\ discoverV1.state = "fulfilled"
     /\ discoverV2.state = "fulfilled") =>
        /\ Len(discoverV2.value) > 0 => closure = Fulfilled(discoverV2.value[1])
        /\ (Len(discoverV2.value) = 0 /\ Len(discoverV1.value) > 0) =>
               closure = Fulfilled(discoverV1.value[1])
        /\ (closure.state = "fulfilled" /\ closure.value \in SeqRange(discoverV1.value)) =>
               Len(discoverV2.value) = 0

\* Both rankings came back with an order and the closure resolved to the top
\* of V2.
C7_Witness ==
    /\ pc = "resolved"
    /\ sats > 0
    /\ discoverV1.state = "fulfilled"
    /\ discoverV2.state = "fulfilled"
    /\ Len(discoverV1.value) > 0
    /\ Len(discoverV2.value) > 0
    /\ closure = Fulfilled(discoverV2.value[1])

\* C8: the V2 discover call is started while the V1 discover call is still in
\* flight, so that the two discoveries overlap.
C8_DiscoversOverlap ==
    [][(discoverV2 # Pending /\ discoverV2' = Pending) => discoverV1' = Pending]_vars

\* C9: when a discover call returns, every one of its preview requests has
\* come back; a failed one cost only its own order: the ranking holds exactly
\* the orders whose preview succeeded, the call did not fail on account of a
\* preview, and each failure was handed to the error handler.
C9_FailureDropsOnlyItsOrder ==
    \A v \in {1, 2} :
        Returned(v) =>
            /\ AllSettled(previews)
            /\ DOMAIN previews = 1..Len(DiscovererOf(v).orders)
            /\ {r \in reported : r[1] = v} = {<<v, i>> : i \in FailedPreviews}
            /\ DiscoverOf(v).state = "rejected" => DiscoverOf(v).reason = PolicyError
            /\ DiscoverOf(v).state = "fulfilled" =>
                   /\ SeqRange(DiscoverOf(v).value) =
                          {DiscovererOf(v).orders[i] : i \in Survivors(previews)}
                   /\ Len(DiscoverOf(v).value) = Cardinality(Survivors(previews))

\* A V1 discover call that returned one order after one of its two previews
\* failed.
C9_Witness ==
    /\ Returned(1)
    /\ Cardinality(FailedPreviews) = 1
    /\ Cardinality(Survivors(previews)) = 1
    /\ discoverV1.state = "fulfilled"
    /\ Len(discoverV1.value) = 1
    /\ reported # {}

\* C10: a discover call all of whose preview requests failed, or that had no
\* candidate, returns the empty list and does not throw.
C10_AllFailedIsEmpty ==
    \A v \in {1, 2} :
        (Returned(v) /\ Survivors(previews) = {}) => DiscoverOf(v) = Fulfilled(<<>>)

\* A V2 discover call with two candidates, both of whose previews failed.
C10_Witness ==
    /\ Returned(2)
    /\ Len(discovererV2.orders) >= 2
    /\ FailedPreviews = DOMAIN previews
    /\ discoverV2 = Fulfilled(<<>>)

(***************************************************************************)
(* One discover call seen request by request: the V1 discover call of an   *)
(* invocation of the closure, on a V1 catalog of markets of any liquidity  *)
(* that all list the pair, with the order in which the preview requests    *)
(* come back.                                                              *)
(***************************************************************************)
LiquidKinds == {[baseAsset |-> p.baseAsset, quoteAsset |-> p.quoteAsset, balance |-> b] :
                   p \in {q \in Pairs : q.baseAsset # q.quoteAsset}, b \in 1..MaxBalance}

InitDiscover ==
    /\ markets \in [v1 : LiquidMarketLists(LiquidKinds, MaxMarkets), v2 : {<<>>}]
    /\ sendAsset = "A"
    /\ receiveAsset = "B"
    /\ called = "none"
    /\ trades = <<>>
    /\ SelectorIdle
    /\ BeyondIdle

NextDiscover ==
    \/ CallDiscoverBestOrder
    \/ InvokeClosure
    \/ PreviewArrives
    \/ DiscoverReturns

SpecDiscover == InitDiscover /\ [][NextDiscover]_vars

(***************************************************************************)
(* Properties of a discover call, checked under SpecDiscover and Spec.     *)
(***************************************************************************)
\* The place among the candidates of the k-th order of a ranking.
PlaceOf(v, ranked) ==
    CHOOSE i \in 1..Len(DiscovererOf(v).orders) : DiscovererOf(v).orders[i] = ranked

\* The policy of the selector: the better quote, then the deeper market.
PolicyPrefers(v, i, j) ==
    LET oi == DiscovererOf(v).orders[i]
        oj == DiscovererOf(v).orders[j]
    IN \/ previews[i].amount > previews[j].amount
       \/ /\ previews[i].amount = previews[j].amount
          /\ oi.market.balance > oj.market.balance

\* C11: the ranking a discover call returns holds the orders whose preview
\* succeeded, each once, sorted by the policy with equals in candidate order:
\* it is the same list in whatever order the preview requests came back.
C11_RankingIgnoresArrival ==
    (Returned(1) /\ discoverV1.state = "fulfilled") =>
        LET ranking == discoverV1.value
            place == [k \in 1..Len(ranking) |-> PlaceOf(1, ranking[k])]
        IN /\ SeqRange(ranking) \subseteq SeqRange(discovererV1.orders)
           /\ SeqRange(place) = Survivors(previews)
           /\ Len(ranking) = Cardinality(Survivors(previews))
           /\ \A a, b \in 1..Len(ranking) :
                  a < b =>
                      /\ ~PolicyPrefers(1, place[b], place[a])
                      /\ ~PolicyPrefers(1, place[a], place[b]) => place[a] < place[b]

\* Two candidates with the same quote and liquidity whose previews came back
\* second candidate first, ranked in candidate order.
C11_Witness ==
    /\ Returned(1)
    /\ discoverV1.state = "fulfilled"
    /\ Len(discoverV1.value) = 2
    /\ arrived = <<2, 1>>
    /\ previews[1] = previews[2]
    /\ discovererV1.orders[1].market.balance = discovererV1.orders[2].market.balance
    /\ discoverV1.value = discovererV1.orders

HexDigits == <<"0", "1", "2", "3", "4", "5", "6", "7", "8", "9", "a", "b", "c", "d", "e", "f">>

\* buffer.toString('hex')
RECURSIVE ToHex(_)
ToHex(bytes) ==
    IF bytes = <<>> THEN <<>>
    ELSE <<HexDigits[(Head(bytes) \div 16) + 1], HexDigits[(Head(bytes) % 16) + 1]>>
             \o ToHex(Tail(bytes))

HexValue(digit) == (CHOOSE k \in 1..16 : HexDigits[k] = digit) - 1

\* Buffer.from(hex, 'hex')
RECURSIVE FromHex(_)
FromHex(hex) ==
    IF Len(hex) < 2 THEN <<>>
    ELSE <<HexValue(hex[1]) * 16 + HexValue(hex[2])>> \o FromHex(SubSeq(hex, 3, Len(hex)))

\* buffer.reverse()
Reverse(bytes) == [k \in 1..Len(bytes) |-> bytes[Len(bytes) + 1 - k]]

\* number.toString()
RECURSIVE NumberToString(_)
NumberToString(n) ==
    IF n < 10 THEN <<HexDigits[n + 1]>>
    ELSE NumberToString(n \div 10) \o <<HexDigits[(n % 10) + 1]>>

\* The key of an outpoint in the output history: "txid:vout".
outpointToString(outpoint) == outpoint.txid \o <<":">> \o NumberToString(outpoint.vout)

(***************************************************************************)
(* psetToUnblindedInputs (lines 398-442).                                  *)
(***************************************************************************)
\* input.witnessUtxo?.script is defined
HasScript(input) == input.witnessUtxo # Undefined

\* Lines 400-403.
inputsScripts(p) ==
    LET scripted == SelectSeq(p.inputs, HasScript)
    IN [k \in 1..Len(scripted) |-> ToHex(scripted[k].witnessUtxo.script)]

\* A slip that looks up the script of the first input only.
scriptsDetailsOfFirst(p, store) ==
    LET found == {script \in SeqRange(SubSeq(inputsScripts(p), 1, 1)) :
                      script \in DOMAIN store.scriptDetails}
    IN [script \in found |-> store.scriptDetails[script]]

\* Lines 405-411: the details of the scripts the wallet knows.
scriptsDetails(p, store) ==
    LET found == {script \in SeqRange(inputsScripts(p)) : script \in DOMAIN store.scriptDetails}
    IN [script \in found |-> store.scriptDetails[script]]

\* A slip that takes every input that has a script.
RECURSIVE inputIndexesOfScripted(_, _, _)
inputIndexesOfScripted(p, details, i) ==
    IF i >= Len(p.inputs) THEN <<>>
    ELSE (IF HasScript(p.inputs[i + 1]) THEN <<i>> ELSE <<>>)
             \o inputIndexesOfScripted(p, details, i + 1)

\* Lines 412-421: the loop from i on; positions count from 0.
RECURSIVE inputIndexes(_, _, _)
inputIndexes(p, details, i) ==
    IF i >= Len(p.inputs) THEN <<>>
    ELSE LET input == p.inputs[i + 1]
         IN (IF HasScript(input) /\ ToHex(input.witnessUtxo.script) \in DOMAIN details
             THEN <<i>> ELSE <<>>)
                \o inputIndexes(p, details, i + 1)

\* A slip that keys the history by the transaction id as the template has it.
HistoryKeyUnreversed(input) ==
    outpointToString([txid |-> ToHex(input.previousTxid), vout |-> input.previousTxIndex])

\* Lines 427-430: the key of the output the input spends.
HistoryKey(input) ==
    outpointToString([txid |-> ToHex(Reverse(input.previousTxid)),
                      vout |-> input.previousTxIndex])

\* Lines 425-431: outputHistory[key], undefined where the history has no such key.
UnblindOutput(input, store) ==
    IF HistoryKey(input) \in DOMAIN store.outputHistory
    THEN store.outputHistory[HistoryKey(input)]
    ELSE Undefined

\* Line 432: the test that skips an input.
Skipped(unblindOutput) ==
    unblindOutput = Undefined \/ unblindOutput.blindingData = Undefined

\* Lines 433-439: the entry pushed for an input.
UnblindedInput(unblindOutput, inputIndex) ==
    [asset |-> unblindOutput.blindingData.asset,
     assetBlinder |->
         ToHex(Reverse(FromHex(unblindOutput.blindingData.assetBlindingFactor))),
     amountBlinder |->
         ToHex(Reverse(FromHex(unblindOutput.blindingData.valueBlindingFactor))),
     amount |-> NumberToString(unblindOutput.blindingData.value),
     index |-> inputIndex]

\* A slip that leaves the loop at the first input it cannot resolve.
RECURSIVE pushUnblindedUntilSkipped(_, _, _, _)
pushUnblindedUntilSkipped(p, store, indexes, k) ==
    IF k > Len(indexes) THEN <<>>
    ELSE LET unblindOutput == UnblindOutput(p.inputs[indexes[k] + 1], store)
         IN IF Skipped(unblindOutput) THEN <<>>
            ELSE <<UnblindedInput(unblindOutput, indexes[k])>>
                     \o pushUnblindedUntilSkipped(p, store, indexes, k + 1)

\* Lines 423-440: the loop over inputIndexes, from its k-th element on.
RECURSIVE pushUnblinded(_, _, _, _)
pushUnblinded(p, store, indexes, k) ==
    IF k > Len(indexes) THEN <<>>
    ELSE LET unblindOutput == UnblindOutput(p.inputs[indexes[k] + 1], store)
         IN (IF Skipped(unblindOutput) THEN <<>>
             ELSE <<UnblindedInput(unblindOutput, indexes[k])>>)
                \o pushUnblinded(p, store, indexes, k + 1)

psetToUnblindedInputs(p, store) ==
    pushUnblinded(p, store, inputIndexes(p, scriptsDetails(p, store), 0), 1)

(***************************************************************************)
(* The templates and wallets psetToUnblindedInputs is called on.           *)
(***************************************************************************)
\* Two output scripts.
Scripts == {<<0, 20>>, <<81, 32>>}

\* The outputs a template input may spend, of two transactions whose ids are
\* each the other read backwards.
Outpoints == {<<<<1, 16>>, 0>>, <<<<16, 1>>, 0>>, <<<<1, 16>>, 1>>}

PsetInputs ==
    {[witnessUtxo |-> w, previousTxid |-> o[1], previousTxIndex |-> o[2]] :
        w \in {Undefined} \cup [script : Scripts], o \in Outpoints}

Psets == UNION { [inputs : [1..n -> PsetInputs]] : n \in 0..MaxInputs }

\* The wallet's script index: a record of details under the hex of a script.
ScriptIndexes ==
    UNION { [{ToHex(script) : script \in indexed} -> {[derivationPath |-> "m/84'/0'"]}] :
              indexed \in SUBSET Scripts }

\* The keys of the output history, in display order.
HistoryKeys ==
    {outpointToString([txid |-> ToHex(o[1]), vout |-> o[2]]) :
        o \in {<<<<16, 1>>, 0>>, <<<<1, 16>>, 0>>, <<<<16, 1>>, 1>>}}

\* What the wallet unblinded of an output: its own for each output.
BlindingDataOf(key) ==
    [asset |-> IF key[Len(key)] = "0" THEN "A" ELSE "B",
     value |-> IF key[1] = "0" THEN 7 ELSE 120,
     assetBlindingFactor |-> <<"a", "b">> \o SubSeq(key, 1, 4),
     valueBlindingFactor |-> SubSeq(key, 1, 4) \o <<"c", "d">>]

HistoryEntries(key) == {[blindingData |-> Undefined], [blindingData |-> BlindingDataOf(key)]}

OutputHistories ==
    UNION { {h \in [recorded -> UNION {HistoryEntries(key) : key \in recorded}] :
                \A key \in recorded : h[key] \in HistoryEntries(key)} :
              recorded \in SUBSET HistoryKeys }

\* Everything but the resolver at rest.
TradingIdle ==
    /\ markets = [v1 |-> <<>>, v2 |-> <<>>]
    /\ sendAsset = NoAsset
    /\ receiveAsset = NoAsset
    /\ called = "none"
    /\ trades = <<>>
    /\ SelectorIdle
    /\ arrived = <<>>
    /\ RestIdle

InitResolver ==
    /\ TradingIdle
    /\ ExecutorIdle
    /\ CatalogIdle
    /\ pset \in Psets
    /\ walletStore \in [scriptDetails : ScriptIndexes, outputHistory : OutputHistories]
    /\ unblindedInputs = <<>>
    /\ resolverPc = "start"

\* input.previousTxid.reverse(): Buffer.reverse() works in place, so without
\* the copy the template's buffer is left reversed.
ReverseInPlace(bytes) == [source |-> Reverse(bytes), reversed |-> Reverse(bytes)]

\* Line 429, Buffer.from(input.previousTxid).reverse(): Buffer.from(buffer)
\* copies, and it is the copy that is reversed in place; what is left in the
\* buffer copied from, and the reversed buffer.
ReverseOfCopy(bytes) == [source |-> bytes, reversed |-> Reverse(bytes)]

\* The template after the call: the third loop (lines 424-431) handles the
\* previousTxid of each input of inputIndexes; nothing else of the template
\* is the receiver of an operation.
PsetAfter(p, store) ==
    LET handled == SeqRange(inputIndexes(p, scriptsDetails(p, store), 0))
    IN [p EXCEPT !.inputs =
            [k \in 1..Len(p.inputs) |->
                IF k - 1 \in handled
                THEN [p.inputs[k] EXCEPT
                          !.previousTxid = ReverseOfCopy(p.inputs[k].previousTxid).source]
                ELSE p.inputs[k]]]

\* The call.  The store is only read: getState().scriptDetails[script] at
\* line 407 and getState().outputHistory[key] at line 426; the details found
\* are kept in the local scriptsDetails.
CallPsetToUnblindedInputs ==
    /\ resolverPc = "start"
    /\ unblindedInputs' = psetToUnblindedInputs(pset, walletStore)
    /\ pset' = PsetAfter(pset, walletStore)
    /\ resolverPc' = "returned"
    /\ UNCHANGED <<inputs, pureCall, selector, arrived, rest, walletStore, executor, catalog>>

NextResolver == CallPsetToUnblindedInputs

SpecResolver == InitResolver /\ [][NextResolver]_vars

(***************************************************************************)
(* Properties of psetToUnblindedInputs, checked under SpecResolver.        *)
(* Positions of inputs count from 0, as in the result.                     *)
(***************************************************************************)
Positions == 0..(Len(pset.inputs) - 1)

\* The wallet owns the input at position i: its script is in the script index.
Owned(i) ==
    /\ pset.inputs[i + 1].witnessUtxo # Undefined
    /\ ToHex(pset.inputs[i + 1].witnessUtxo.script) \in DOMAIN walletStore.scriptDetails

\* The key of the output the input at position i spends: the transaction id
\* last byte first, in hex, then the output index.
SpentKey(i) ==
    LET txid == pset.inputs[i + 1].previousTxid
    IN ToHex([k \in 1..Len(txid) |-> txid[Len(txid) + 1 - k]])
           \o <<":">> \o NumberToString(pset.inputs[i + 1].previousTxIndex)

\* The history has blinding data for the output the input at position i spends.
Recorded(i) ==
    /\ SpentKey(i) \in DOMAIN walletStore.outputHistory
    /\ walletStore.outputHistory[SpentKey(i)].blindingData # Undefined

EntriesOf(i) == {k \in 1..Len(unblindedInputs) : unblindedInputs[k].index = i}

Indexes == [k \in 1..Len(unblindedInputs) |-> unblindedInputs[k].index]

\* C13: no entry is returned for an input whose script is missing or is not in
\* the wallet's script index; the indexes of the result are positions of the
\* template and strictly increasing, hence pairwise distinct.
C13_OnlyOwnedInIncreasingOrder ==
    resolverPc = "returned" =>
        /\ \A k \in 1..Len(unblindedInputs) :
               /\ Indexes[k] \in Positions
               /\ Owned(Indexes[k])
        /\ \A a, b \in 1..Len(unblindedInputs) : a < b => Indexes[a] < Indexes[b]

\* A template whose first input has a script the wallet does not know, though
\* the history has its output, and whose other two inputs are returned.
C13_Witness ==
    /\ resolverPc = "returned"
    /\ Len(pset.inputs) = 3
    /\ pset.inputs[1].witnessUtxo # Undefined
    /\ ~Owned(0)
    /\ Recorded(0)
    /\ Indexes = <<1, 2>>

\* C14: every input whose script is in the wallet's script index has exactly
\* one entry in the result, and every entry is of such an input.
C14_OneToOneWithOwned ==
    resolverPc = "returned" =>
        /\ \A i \in Positions : Owned(i) => Cardinality(EntriesOf(i)) = 1
        /\ \A k \in 1..Len(unblindedInputs) : Indexes[k] \in Positions /\ Owned(Indexes[k])

\* C14, as it holds: the entries are one-to-one with the wallet-owned inputs
\* whose spent output has blinding data in the history.
C14_OneToOneWithOwnedRecorded ==
    resolverPc = "returned" =>
        /\ \A i \in Positions : (Owned(i) /\ Recorded(i)) => Cardinality(EntriesOf(i)) = 1
        /\ \A k \in 1..Len(unblindedInputs) :
               /\ Indexes[k] \in Positions
               /\ Owned(Indexes[k])
               /\ Recorded(Indexes[k])

\* Three owned inputs with two different scripts, the last two with blinding
\* data in the history, the first without: two entries.
C14_Witness ==
    /\ resolverPc = "returned"
    /\ Len(pset.inputs) = 3
    /\ \A i \in Positions : Owned(i)
    /\ pset.inputs[1].witnessUtxo # pset.inputs[2].witnessUtxo
    /\ ~Recorded(0)
    /\ Recorded(1)
    /\ Recorded(2)
    /\ Indexes = <<1, 2>>

\* C15: in what the call returns, an owned input whose spent output has no
\* history entry, or an entry without blinding data, has no entry; every owned
\* input that has blinding data has one all the same.
C15_UnresolvedOmittedOthersKept ==
    resolverPc = "returned" =>
        \A i \in Positions :
            Owned(i) => IF Recorded(i) THEN EntriesOf(i) # {} ELSE EntriesOf(i) = {}

\* An owned input with no history entry, then one whose entry has no blinding
\* data, then one with blinding data, which is returned.
C15_Witness ==
    /\ resolverPc = "returned"
    /\ Len(pset.inputs) = 3
    /\ \A i \in Positions : Owned(i)
    /\ SpentKey(0) \notin DOMAIN walletStore.outputHistory
    /\ SpentKey(1) \in DOMAIN walletStore.outputHistory
    /\ ~Recorded(1)
    /\ Recorded(2)
    /\ Indexes = <<2>>

\* The number a decimal string writes.
RECURSIVE ParseNumber(_)
ParseNumber(digits) ==
    IF digits = <<>> THEN 0
    ELSE ParseNumber(SubSeq(digits, 1, Len(digits) - 1)) * 10 + HexValue(digits[Len(digits)])

\* hex writes the bytes that stored writes, last byte first.
BytesReversed(hex, stored) ==
    /\ Len(hex) = Len(stored)
    /\ \A k \in 1..(Len(hex) \div 2) :
           /\ hex[2 * k - 1] = stored[Len(stored) - 2 * k + 1]
           /\ hex[2 * k] = stored[Len(stored) - 2 * k + 2]

\* C16: the entry of the input at position i carries index i, the asset and
\* the amount the history records under the key of the output that input
\* spends (its transaction id byte-reversed, and its output index), and the
\* recorded asset and value blinding factors byte-reversed; of three inputs of
\* which the first and the last are owned with blinding data and the second
\* is not owned, exactly the entries with indexes 0 and 2 are returned.
C16_EntryCarriesRecordedData ==
    resolverPc = "returned" =>
        /\ \A k \in 1..Len(unblindedInputs) :
               LET entry == unblindedInputs[k]
               IN /\ entry.index \in Positions
                  /\ Recorded(entry.index)
                  /\ LET data == walletStore.outputHistory[SpentKey(entry.index)].blindingData
                     IN /\ entry.asset = data.asset
                        /\ ParseNumber(entry.amount) = data.value
                        /\ BytesReversed(entry.assetBlinder, data.assetBlindingFactor)
                        /\ BytesReversed(entry.amountBlinder, data.valueBlindingFactor)
        /\ (/\ Len(pset.inputs) = 3
            /\ Owned(0) /\ Recorded(0)
            /\ ~Owned(1)
            /\ Owned(2) /\ Recorded(2)) => Indexes = <<0, 2>>

\* Inputs 0 and 2 are owned and spend two different recorded outputs, input 1
\* has a script the wallet does not know: two entries, the second with the
\* data recorded under "0110:0" for the transaction id 10 01.
C16_Witness ==
    /\ resolverPc = "returned"
    /\ Len(pset.inputs) = 3
    /\ Owned(0) /\ Recorded(0)
    /\ pset.inputs[2].witnessUtxo # Undefined /\ ~Owned(1)
    /\ Owned(2) /\ Recorded(2)
    /\ SpentKey(0) # SpentKey(2)
    /\ pset.inputs[3].previousTxid = <<16, 1>>
    /\ Len(unblindedInputs) = 2
    /\ unblindedInputs[2] = [asset |-> "A", amount |-> <<"7">>, index |-> 2,
                             assetBlinder |-> <<"1", "0", "0", "1", "a", "b">>,
                             amountBlinder |-> <<"c", "d", "1", "0", "0", "1">>]

(***************************************************************************)
(* makeTradeV1 / makeTradeV2 (lines 98-133 and 227-262).  The Trade class  *)
(* and its buy and sell flows are the protocol client: constructing one    *)
(* may throw, and a flow ends with a transaction id, with none, or with an *)
(* error.                                                                  *)
(***************************************************************************)
String(chars) == [type |-> "string", value |-> chars]

\* !value
Falsy(value) == value = Undefined \/ value = String("")

Error(message) == [name |-> "Error", message |-> message]

AppError(code, message) == [name |-> "AppError", code |-> code, message |-> message]

NotBroadcasted == Error("Transaction not broadcasted")

\* What new Trade(...) may throw.
TradeOptionsErrors == {Error("invalid trade options")}

\* What a flow may resolve with, and what it may reject with.
FlowTxids == {Undefined, String(""), String("txid")}
FlowErrors == {Error("swap rejected"), Error("broadcast failed")}

\* The orders and amounts makeTrade is called with.
TradeOrders(version) ==
    {[market |-> MarketAt(1, pair), type |-> type,
      traderClient |-> IF version = 1 THEN createTraderClientV1(1)
                                      ELSE createTraderClientV2(1)] :
        pair \in {p \in Pairs : p.baseAsset # p.quoteAsset}, type \in {SELL, BUY}}

Knowns == [amount : {1, 2}, asset : Assets]

\* Line 122: the arguments of the flow.
FlowArgs(tradeOrder, entered) ==
    [amount |-> entered.amount, asset |-> entered.asset, market |-> tradeOrder.market,
     addressForSwapOutput |-> "addressForSwapOutput",
     addressForChangeOutput |-> "addressForChangeOutput"]

\* Line 123: order.type === TradeType.BUY ? trader.buy(args) : trader.sell(args)
FlowOf(tradeOrder) == IF tradeOrder.type = BUY THEN "buy" ELSE "sell"

\* Lines 110-123: the trader is constructed outside the try; what it throws
\* rejects the call as it is.  Then the flow is started and awaited.
MakeTrade(name) ==
    /\ tradePc = "start"
    /\ tradeCalled' = name
    /\ \/ /\ \E err \in TradeOptionsErrors : tradeResult' = Rejected(err)
          /\ tradePc' = "rejected"
          /\ UNCHANGED <<flowCalls, promise>>
       \/ /\ flowCalls' = Append(flowCalls, [flow |-> FlowOf(order),
                                             args |-> FlowArgs(order, known)])
          /\ promise' = Pending
          /\ tradePc' = "await"
          /\ UNCHANGED tradeResult
    /\ UNCHANGED <<inputs, pureCall, selector, arrived, rest, resolver, catalog, order, known,
                   tradeLogged>>

CallMakeTradeV1 ==
    /\ order \in TradeOrders(1)
    /\ MakeTrade("makeTradeV1")

CallMakeTradeV2 ==
    /\ order \in TradeOrders(2)
    /\ MakeTrade("makeTradeV2")

\* The flow ends.
FlowSettles ==
    /\ tradePc = "await"
    /\ promise = Pending
    /\ \/ \E txid \in FlowTxids : promise' = Fulfilled(txid)
       \/ \E err \in FlowErrors : promise' = Rejected(err)
    /\ UNCHANGED <<inputs, pureCall, selector, arrived, rest, resolver, catalog, order, known,
                   tradeCalled,
                   tradePc, flowCalls, tradeResult, tradeLogged>>

\* Lines 124-131: what the call makes of the settled flow: what the catch
\* block caught, if anything, and the promise of the call.
TradeOutcome(settled) ==
    LET caught == IF settled.state = "rejected" THEN settled.reason
                  ELSE IF Falsy(settled.value) THEN NotBroadcasted
                  ELSE Undefined
    IN [caught |-> caught,
        result |-> IF caught = Undefined THEN Fulfilled(settled.value)
                   ELSE Rejected(AppError(0, caught.message))]

\* Lines 124-131, after the await.
ResumeMakeTrade ==
    /\ tradePc = "await"
    /\ Settled(promise)
    /\ LET outcome == TradeOutcome(promise)
       IN /\ tradeResult' = outcome.result
          /\ tradePc' = IF outcome.result.state = "fulfilled" THEN "resolved" ELSE "rejected"
          /\ tradeLogged' = IF outcome.caught = Undefined THEN tradeLogged
                            ELSE Append(tradeLogged, <<"trade error:", outcome.caught>>)
    /\ UNCHANGED <<inputs, pureCall, selector, arrived, rest, resolver, catalog, order, known,
                   tradeCalled,
                   flowCalls, promise>>

InitExecutor ==
    /\ TradingIdle
    /\ ResolverIdle
    /\ CatalogIdle
    /\ order \in TradeOrders(1) \cup TradeOrders(2)
    /\ known \in Knowns
    /\ tradeCalled = "none"
    /\ tradePc = "start"
    /\ flowCalls = <<>>
    /\ promise = NoPromise
    /\ tradeResult = NoPromise
    /\ tradeLogged = <<>>

NextExecutor ==
    \/ CallMakeTradeV1
    \/ CallMakeTradeV2
    \/ FlowSettles
    \/ ResumeMakeTrade

SpecExecutor == InitExecutor /\ [][NextExecutor]_vars

(***************************************************************************)
(* Properties of makeTradeV1 / makeTradeV2, checked under SpecExecutor.    *)
(***************************************************************************)
TradeEnded == tradePc \in {"resolved", "rejected"}

\* The flow resolved with a transaction id that is not empty.
FlowGaveTxid ==
    /\ promise.state = "fulfilled"
    /\ promise.value # Undefined
    /\ promise.value.value # ""

\* C17: the call resolves, with the transaction id, exactly when the flow
\* resolved with a non-empty transaction id; otherwise (the flow resolved
\* without one, or a step threw) it rejects with an AppError whose message is
\* that of the cause.
C17_TxidOrAppError ==
    TradeEnded =>
        IF FlowGaveTxid
        THEN tradeResult = Fulfilled(promise.value)
        ELSE /\ tradeResult.state = "rejected"
             /\ tradeResult.reason.name = "AppError"
             /\ promise.state = "rejected" =>
                    tradeResult.reason.message = promise.reason.message
             /\ promise.state = "fulfilled" =>
                    tradeResult.reason.message = "Transaction not broadcasted"

(***************************************************************************)
(* getMarketsFromProviderV1 / getMarketsFromProviderV2 (lines 52-70 and    *)
(* 181-199).  The client's listMarkets and getMarketBalance are requests   *)
(* to the provider: each is answered or fails.                             *)
(***************************************************************************)
\* { ...target, ...source }: the fields of source win; spreading undefined
\* adds nothing.
Spread(target, source) == IF source = Undefined THEN target ELSE source @@ target

\* What a provider may list: an entry has a market or none, a fee or none.
MarketDescriptors == {p \in Pairs : p.baseAsset # p.quoteAsset}
Fees == {[basisPoint |-> 25]}
ListingEntries == [market : {Undefined} \cup MarketDescriptors, fee : {Undefined} \cup Fees]
Listings == UNION { [1..n -> ListingEntries] : n \in 0..MaxListing }

\* What getMarketBalance may resolve with: nothing, a response without a
\* balance, a response with one.
BalanceResponses ==
    {Undefined, [balance |-> Undefined], [balance |-> [baseAmount |-> 3, quoteAmount |-> 4]]}

ListMarketsErrors == {Error("listMarkets failed")}
GetMarketBalanceErrors == {Error("getMarketBalance failed")}

\* A slip that also skips an entry without a fee.
HasMarketAndFee(entry) == entry.market # Undefined /\ entry.fee # Undefined

\* Line 60: if (!market) continue
HasMarket(entry) == entry.market # Undefined

\* The first entry from the i-th on that the loop does not skip, or one past
\* the list.
RECURSIVE NextWithMarket(_, _)
NextWithMarket(listed, i) ==
    IF i > Len(listed) \/ HasMarket(listed[i]) THEN i ELSE NextWithMarket(listed, i + 1)

\* Line 61: (await client.getMarketBalance(market))?.balance
BalanceV1(response) == IF response = Undefined THEN Undefined ELSE response.balance

\* Line 190: await client.getMarketBalance(market)
BalanceV2(response) == response

\* Lines 62-67 and 191-196.
MarketRecord(p, entry, balance) ==
    Spread(Spread(Spread([provider |-> p], entry.market), balance), entry.fee)

\* The entry whose balance is awaited: requests are issued in listing order.
RECURSIVE EntryOfRequest(_, _, _)
EntryOfRequest(listed, i, n) ==
    IF n = 1 THEN NextWithMarket(listed, i)
    ELSE EntryOfRequest(listed, NextWithMarket(listed, i) + 1, n - 1)

\* The loop from the i-th entry on, with the records pushed so far: it asks
\* for the balance of the next entry it does not skip, or returns.
LoopFrom(i, pushed) ==
    LET j == NextWithMarket(listing, i)
    IN /\ results' = pushed
       /\ IF j > Len(listing)
          THEN /\ catalogResult' = Fulfilled(pushed)
               /\ catalogPc' = "returned"
               /\ UNCHANGED <<balanceRequests, balanceAnswers>>
          ELSE /\ balanceRequests' = Append(balanceRequests, listing[j].market)
               /\ balanceAnswers' = Append(balanceAnswers, Pending)
               /\ catalogPc' = "awaitBalance"
               /\ UNCHANGED catalogResult

\* Lines 56-57 and 185-186: the client is made and listMarkets awaited.
AwaitListMarkets ==
    /\ catalogPc = "start"
    /\ listMarkets' = Append(listMarkets, Pending)
    /\ catalogPc' = "awaitList"
    /\ UNCHANGED <<inputs, pureCall, selector, arrived, rest, resolver, executor, provider, listing,
                   balanceRequests, balanceAnswers, results, catalogResult>>

CallGetMarketsFromProviderV1 ==
    /\ catalogCalled' = "getMarketsFromProviderV1"
    /\ AwaitListMarkets

CallGetMarketsFromProviderV2 ==
    /\ catalogCalled' = "getMarketsFromProviderV2"
    /\ AwaitListMarkets

\* The provider answers listMarkets, or the request fails.
ListMarketsSettles ==
    /\ catalogPc = "awaitList"
    /\ listMarkets[Len(listMarkets)] = Pending
    /\ \/ listMarkets' = [listMarkets EXCEPT ![Len(listMarkets)] = Fulfilled(listing)]
       \/ \E err \in ListMarketsErrors :
              listMarkets' = [listMarkets EXCEPT ![Len(listMarkets)] = Rejected(err)]
    /\ UNCHANGED <<inputs, pureCall, selector, arrived, rest, resolver, executor, provider, listing,
                   catalogCalled, catalogPc, balanceRequests, balanceAnswers, results,
                   catalogResult>>

\* A slip that returns what was collected when a request fails.
AwaitRejectedPartial(pushed, err) == Fulfilled(pushed)

\* Lines 57 and 61: no try around the awaits, so a rejected request rejects
\* the call with the same error.
AwaitRejected(pushed, err) == Rejected(err)

\* The call ends on a failed request.
EndsOnFailure(pushed, err) ==
    /\ catalogResult' = AwaitRejected(pushed, err)
    /\ catalogPc' = IF AwaitRejected(pushed, err).state = "rejected" THEN "rejected"
                    ELSE "returned"
    /\ UNCHANGED <<balanceRequests, balanceAnswers, results>>

\* Lines 57-59 and 186-188, after the await of listMarkets.
ResumeAfterListMarkets ==
    /\ catalogPc = "awaitList"
    /\ Settled(listMarkets[Len(listMarkets)])
    /\ IF listMarkets[Len(listMarkets)].state = "rejected"
       THEN EndsOnFailure(<<>>, listMarkets[Len(listMarkets)].reason)
       ELSE LoopFrom(1, <<>>)
    /\ UNCHANGED <<inputs, pureCall, selector, arrived, rest, resolver, executor, provider, listing,
                   catalogCalled, listMarkets>>

\* The provider answers getMarketBalance, or the request fails.
GetMarketBalanceSettles ==
    /\ catalogPc = "awaitBalance"
    /\ balanceAnswers[Len(balanceAnswers)] = Pending
    /\ \/ \E response \in BalanceResponses :
              balanceAnswers' = [balanceAnswers EXCEPT ![Len(balanceAnswers)] =
                                     Fulfilled(response)]
       \/ \E err \in GetMarketBalanceErrors :
              balanceAnswers' = [balanceAnswers EXCEPT ![Len(balanceAnswers)] = Rejected(err)]
    /\ UNCHANGED <<inputs, pureCall, selector, arrived, rest, resolver, executor, provider, listing,
                   catalogCalled, catalogPc, listMarkets, balanceRequests, results,
                   catalogResult>>

\* Lines 61-68 and 190-197, after the await of getMarketBalance: the record
\* is pushed and the loop goes on.
ResumeAfterGetMarketBalance ==
    /\ catalogPc = "awaitBalance"
    /\ Settled(balanceAnswers[Len(balanceAnswers)])
    /\ LET answer == balanceAnswers[Len(balanceAnswers)]
           j == EntryOfRequest(listing, 1, Len(balanceRequests))
       IN IF answer.state = "rejected"
          THEN EndsOnFailure(results, answer.reason)
          ELSE LoopFrom(j + 1,
                        Append(results,
                               MarketRecord(provider, listing[j],
                                            IF catalogCalled = "getMarketsFromProviderV1"
                                            THEN BalanceV1(answer.value)
                                            ELSE BalanceV2(answer.value))))
    /\ UNCHANGED <<inputs, pureCall, selector, arrived, rest, resolver, executor, provider, listing,
                   catalogCalled, listMarkets>>

Providers == {[name |-> "provider", endpoint |-> "https://provider", version |-> "v1"]}

InitCatalog ==
    /\ TradingIdle
    /\ ResolverIdle
    /\ ExecutorIdle
    /\ provider \in Providers
    /\ listing \in Listings
    /\ catalogCalled = "none"
    /\ catalogPc = "start"
    /\ listMarkets = <<>>
    /\ balanceRequests = <<>>
    /\ balanceAnswers = <<>>
    /\ results = <<>>
    /\ catalogResult = NoPromise

NextCatalog ==
    \/ CallGetMarketsFromProviderV1
    \/ CallGetMarketsFromProviderV2
    \/ ListMarketsSettles
    \/ ResumeAfterListMarkets
    \/ GetMarketBalanceSettles
    \/ ResumeAfterGetMarketBalance

SpecCatalog == InitCatalog /\ [][NextCatalog]_vars

(***************************************************************************)
(* Properties of getMarketsFromProviderV1 / V2, checked under SpecCatalog. *)
(***************************************************************************)
\* The entries of the listing that have a market descriptor, in order.
Described == SelectSeq(listing, LAMBDA entry : entry.market # Undefined)

\* The k-th balance request was answered without balance data.
NoBalanceData(k) ==
    \/ balanceAnswers[k].value = Undefined
    \/ balanceAnswers[k].value.balance = Undefined

\* The record has no balance: no amounts in a V1 record, no or an undefined
\* balance in a V2 record.
BalanceUndefined(record) ==
    /\ "baseAmount" \notin DOMAIN record
    /\ "quoteAmount" \notin DOMAIN record
    /\ "balance" \in DOMAIN record => record.balance = Undefined

\* C18: a call that returns, returns one record for each entry of the listing
\* that has a market descriptor, in the order of the listing, with the
\* provider and the pair of the entry; an entry without descriptor has none,
\* and an entry whose balance answer has no balance data has its record, with
\* an undefined balance.
C18_OneRecordPerDescribedEntry ==
    catalogPc = "returned" =>
        /\ catalogResult.state = "fulfilled"
        /\ Len(catalogResult.value) = Len(Described)
        /\ Len(balanceAnswers) = Len(Described)
        /\ \A k \in 1..Len(Described) :
               LET record == catalogResult.value[k]
               IN /\ record.provider = provider
                  /\ record.baseAsset = Described[k].market.baseAsset
                  /\ record.quoteAsset = Described[k].market.quoteAsset
                  /\ IF NoBalanceData(k) THEN BalanceUndefined(record)
                     ELSE ~BalanceUndefined(record)

\* A listing of a market, an entry without descriptor and another market,
\* whose balance answer has no balance data: two records.
C18_Witness ==
    /\ catalogPc = "returned"
    /\ Len(listing) = 3
    /\ listing[1].market # Undefined
    /\ listing[2].market = Undefined
    /\ listing[3].market # Undefined
    /\ listing[1].market # listing[3].market
    /\ ~NoBalanceData(1)
    /\ NoBalanceData(2)
    /\ Len(catalogResult.value) = 2

\* Some request of the call failed.
ListMarketsFailed == \E k \in 1..Len(listMarkets) : listMarkets[k].state = "rejected"
BalanceFailed == \E k \in 1..Len(balanceAnswers) : balanceAnswers[k].state = "rejected"

\* C20: once listMarkets or a getMarketBalance has failed, no request is
\* issued any more and none is repeated, and when the call ends it is rejected
\* with the error of that request and returns no list; a call without a failed
\* request is not rejected.
C20_FailureRejectsWholeCall ==
    /\ Len(listMarkets) <= 1
    /\ Len(balanceRequests) <= Len(Described)
    /\ \A k \in 1..Len(balanceRequests) : balanceRequests[k] = Described[k].market
    /\ ListMarketsFailed => balanceRequests = <<>>
    /\ \A k \in 1..Len(balanceAnswers) :
           balanceAnswers[k].state = "rejected" => k = Len(balanceRequests)
    /\ catalogPc \in {"returned", "rejected"} =>
           IF ListMarketsFailed
           THEN catalogResult = Rejected(listMarkets[1].reason)
           ELSE IF BalanceFailed
           THEN catalogResult = Rejected(balanceAnswers[Len(balanceAnswers)].reason)
           ELSE catalogResult.state = "fulfilled"

\* The balance of the first market was fetched and a record pushed, the
\* balance request of the second failed: the call is rejected with that error
\* and the third market was not asked for.
C20_Witness ==
    /\ catalogPc = "rejected"
    /\ Len(Described) = 3
    /\ Len(results) = 1
    /\ Len(balanceRequests) = 2
    /\ balanceAnswers[2].state = "rejected"
    /\ catalogResult = Rejected(balanceAnswers[2].reason)

(***************************************************************************)
(* The flow a call of makeTradeV1 / makeTradeV2 runs, checked under        *)
(* SpecExecutor.                                                           *)
(***************************************************************************)
\* The one flow call the order and the entered amount ask for.
ExpectedFlowCall ==
    [flow |-> IF order.type = BUY THEN "buy" ELSE "sell",
     args |-> [market |-> order.market, amount |-> known.amount, asset |-> known.asset,
               addressForSwapOutput |-> "addressForSwapOutput",
               addressForChangeOutput |-> "addressForChangeOutput"]]

\* C21: a call of makeTradeV1/V2 never runs more than one flow, and a call
\* that has ended has run exactly one, once: buy for a BUY order, sell
\* otherwise, with the order's market and the amount, asset and addresses
\* given; nothing is run again after a failure.
C21_ExactlyOneFlowOnce ==
    /\ Len(flowCalls) <= 1
    /\ \A k \in 1..Len(flowCalls) : flowCalls[k] = ExpectedFlowCall
    /\ TradeEnded => Len(flowCalls) = 1

(***************************************************************************)
(* What psetToUnblindedInputs leaves behind, checked under SpecResolver.   *)
(***************************************************************************)
\* C22: a call of psetToUnblindedInputs leaves the wallet's script index and
\* output history as they were, and the inputs of the template, their
\* previous transaction ids included, as they were.
C22_StoreAndTemplateUnchanged ==
    [][/\ walletStore'.scriptDetails = walletStore.scriptDetails
       /\ walletStore'.outputHistory = walletStore.outputHistory
       /\ pset'.inputs = pset.inputs]_vars

\* A call that looked up the outputs of three owned inputs and returned two
\* entries.
C22_Witness ==
    /\ resolverPc = "returned"
    /\ Len(pset.inputs) = 3
    /\ \A i \in Positions : Owned(i)
    /\ Len(unblindedInputs) = 2

(***************************************************************************)
(* previewTradeV1 / previewTradeV2 (lines 168-177 and 297-307).  The       *)
(* client's previewTrade is a request to the provider, answered with a     *)
(* list of previews or failing.                                            *)
(***************************************************************************)
\* Everything modelled above at rest.
CoreIdle ==
    /\ markets = [v1 |-> <<>>, v2 |-> <<>>]
    /\ sendAsset = NoAsset
    /\ receiveAsset = NoAsset
    /\ called = "none"
    /\ trades = <<>>
    /\ SelectorIdle
    /\ arrived = <<>>
    /\ ResolverIdle
    /\ ExecutorIdle
    /\ CatalogIdle

\* The amounts previewTrade is called with.
PreviewSats == {0 - 1, 0, 1, 12}

PreviewArgs == [order : TradeOrders(1) \cup TradeOrders(2), sats : PreviewSats, asset : Assets]

\* What the provider may answer: no preview, one, or two.
Previews == {[amount |-> "10"], [amount |-> "20"]}
PreviewResponses == UNION { [1..n -> Previews] : n \in 0..2 }
PreviewTradeErrors == {Error("previewTrade failed")}

\* A slip that lets the amount 0 through.
NothingToPreviewBelowZero(amount) == amount < 0

\* Lines 169 and 298: if (sats <= 0) return undefined
NothingToPreview(amount) == amount <= 0

\* Lines 170-175.
PreviewRequestV1(args) ==
    [market |-> args.order.market, type |-> args.order.type,
     amount |-> NumberToString(args.sats), asset |-> args.asset]

\* Lines 299-305.
PreviewRequestV2(args) ==
    [market |-> args.order.market, type |-> args.order.type,
     amount |-> NumberToString(args.sats), asset |-> args.asset,
     feeAsset |-> args.order.market.quoteAsset]

\* Lines 169-170: the call returns at once, or issues its request and awaits.
PreviewTrade(request) ==
    /\ previewPc = "start"
    /\ IF NothingToPreview(previewArgs.sats)
       THEN /\ previewResult' = Fulfilled(Undefined)
            /\ previewPc' = "returned"
            /\ UNCHANGED <<previewRequests, previewResponse>>
       ELSE /\ previewRequests' = Append(previewRequests, request)
            /\ previewResponse' = Pending
            /\ previewPc' = "await"
            /\ UNCHANGED previewResult
    /\ UNCHANGED <<core, registry, tradables, withdrawal, previewArgs>>

CallPreviewTradeV1 ==
    /\ previewCalled' = "previewTradeV1"
    /\ PreviewTrade(PreviewRequestV1(previewArgs))

CallPreviewTradeV2 ==
    /\ previewCalled' = "previewTradeV2"
    /\ PreviewTrade(PreviewRequestV2(previewArgs))

\* The provider answers, or the request fails.
PreviewTradeSettles ==
    /\ previewPc = "await"
    /\ previewResponse = Pending
    /\ \/ \E previewed \in PreviewResponses : previewResponse' = Fulfilled(previewed)
       \/ \E err \in PreviewTradeErrors : previewResponse' = Rejected(err)
    /\ UNCHANGED <<core, registry, tradables, withdrawal, previewArgs, previewCalled, previewPc, previewRequests,
                   previewResult>>

\* Lines 176 and 306: return response[0]; a failed request rejects the call.
ResumePreviewTrade ==
    /\ previewPc = "await"
    /\ Settled(previewResponse)
    /\ IF previewResponse.state = "rejected"
       THEN /\ previewResult' = Rejected(previewResponse.reason)
            /\ previewPc' = "rejected"
       ELSE /\ previewResult' = Fulfilled(First(previewResponse.value))
            /\ previewPc' = "returned"
    /\ UNCHANGED <<core, registry, tradables, withdrawal, previewArgs, previewCalled, previewRequests, previewResponse>>

InitPreviewer ==
    /\ CoreIdle
    /\ RegistryIdle
    /\ TradablesIdle
    /\ WithdrawalIdle
    /\ previewArgs \in PreviewArgs
    /\ previewCalled = "none"
    /\ previewPc = "start"
    /\ previewRequests = <<>>
    /\ previewResponse = NoPromise
    /\ previewResult = NoPromise

NextPreviewer ==
    \/ CallPreviewTradeV1
    \/ CallPreviewTradeV2
    \/ PreviewTradeSettles
    \/ ResumePreviewTrade

SpecPreviewer == InitPreviewer /\ [][NextPreviewer]_vars

(***************************************************************************)
(* Properties of previewTradeV1 / V2, checked under SpecPreviewer.         *)
(***************************************************************************)
\* C23: a call with sats <= 0 issues no request and returns no preview; a call
\* with sats > 0 issues one request, for the market and the direction of the
\* order, never a second, and returns the first preview of the response, none
\* when the response is empty.
C23_OneRequestFirstPreview ==
    previewCalled # "none" =>
        IF previewArgs.sats <= 0
        THEN /\ previewRequests = <<>>
             /\ previewResult.state = "fulfilled"
             /\ previewResult.value = Undefined
        ELSE /\ Len(previewRequests) = 1
             /\ previewRequests[1].market = previewArgs.order.market
             /\ previewRequests[1].type = previewArgs.order.type
             /\ previewResult.state = "fulfilled" =>
                    /\ previewResponse.state = "fulfilled"
                    /\ previewResult.value =
                           IF previewResponse.value = <<>> THEN Undefined
                           ELSE previewResponse.value[1]

\* A call with a positive amount answered with two previews, of which the
\* first is returned.
C23_Witness ==
    /\ previewPc = "returned"
    /\ previewArgs.sats > 0
    /\ Len(previewRequests) = 1
    /\ previewResponse.state = "fulfilled"
    /\ Len(previewResponse.value) = 2
    /\ previewResponse.value[1] # previewResponse.value[2]
    /\ previewResult = Fulfilled(previewResponse.value[1])

(***************************************************************************)
(* getProvidersFromTDexRegistry (lines 341-352).  axios.get is a request   *)
(* that is answered with the document at the URL or fails.                 *)
(***************************************************************************)
TDexRegistryMainnet ==
    "https://raw.githubusercontent.com/tdex-network/tdex-registry/master/registry.json"
TDexRegistryTestnet ==
    "https://raw.githubusercontent.com/tdex-network/tdex-registry/testnet/registry.json"

\* Lines 345-348: the provider pushed on the testnet list.
HardCodedProvider ==
    [name |-> "v1.provider.tdex.network", endpoint |-> "https://v1.provider.tdex.network"]

NetworkStrings == {"liquid", "testnet", "regtest"}

\* What a registry document may list.
RegisteredProviders ==
    {[name |-> "one", endpoint |-> "https://one.example"],
     [name |-> "two", endpoint |-> "https://two.example"],
     HardCodedProvider}

RegistryLists == UNION { [1..n -> RegisteredProviders] : n \in 0..MaxProviders }

Registries == [TDexRegistryMainnet : RegistryLists, TDexRegistryTestnet : RegistryLists]

FetchErrors == {Error("Network Error")}

\* The document at a URL.
DocumentAt(url) ==
    IF url = TDexRegistryTestnet THEN registries.TDexRegistryTestnet
    ELSE registries.TDexRegistryMainnet

\* Lines 342-343 and 351: the URL fetched.
RegistryOf(net) == IF net = "testnet" THEN TDexRegistryTestnet ELSE TDexRegistryMainnet

\* A slip that puts the hard-coded provider first.
WithHardCodedProviderFirst(reg) == <<HardCodedProvider>> \o reg

\* Lines 345-348: reg.push({...})
WithHardCodedProvider(reg) == Append(reg, HardCodedProvider)

\* Lines 342-343 and 351: the request is issued and awaited.
CallGetProvidersFromTDexRegistry ==
    /\ registryPc = "start"
    /\ fetches' = Append(fetches, RegistryOf(network))
    /\ fetched' = Pending
    /\ registryPc' = "await"
    /\ UNCHANGED <<core, previewer, tradables, withdrawal, network, registries, providersResult>>

\* The request ends.
RegistryFetchSettles ==
    /\ registryPc = "await"
    /\ fetched = Pending
    /\ \/ fetched' = Fulfilled([data |-> DocumentAt(fetches[Len(fetches)])])
       \/ \E err \in FetchErrors : fetched' = Rejected(err)
    /\ UNCHANGED <<core, previewer, tradables, withdrawal, network, registries, registryPc, fetches,
                   providersResult>>

\* Lines 343-349 and 351, after the await.
ResumeGetProvidersFromTDexRegistry ==
    /\ registryPc = "await"
    /\ Settled(fetched)
    /\ IF fetched.state = "rejected"
       THEN /\ providersResult' = Rejected(fetched.reason)
            /\ registryPc' = "rejected"
       ELSE /\ providersResult' =
                   Fulfilled(IF network = "testnet" THEN WithHardCodedProvider(fetched.value.data)
                             ELSE fetched.value.data)
            /\ registryPc' = "returned"
    /\ UNCHANGED <<core, previewer, tradables, withdrawal, network, registries, fetches, fetched>>

InitRegistry ==
    /\ CoreIdle
    /\ PreviewerIdle
    /\ TradablesIdle
    /\ WithdrawalIdle
    /\ network \in NetworkStrings
    /\ registries \in Registries
    /\ registryPc = "start"
    /\ fetches = <<>>
    /\ fetched = NoPromise
    /\ providersResult = NoPromise

NextRegistry ==
    \/ CallGetProvidersFromTDexRegistry
    \/ RegistryFetchSettles
    \/ ResumeGetProvidersFromTDexRegistry

SpecRegistry == InitRegistry /\ [][NextRegistry]_vars

(***************************************************************************)
(* Properties of getProvidersFromTDexRegistry, checked under SpecRegistry. *)
(***************************************************************************)
\* C24: a call issues one registry fetch and no more; for testnet it returns
\* the list fetched followed by the hard-coded provider, once, as the last
\* element; for any other network it returns the mainnet list as fetched.
C24_TestnetListPlusHardCoded ==
    /\ Len(fetches) <= 1
    /\ registryPc # "start" => Len(fetches) = 1
    /\ registryPc = "returned" =>
           /\ providersResult.state = "fulfilled"
           /\ fetched.state = "fulfilled"
           /\ IF network = "testnet"
              THEN LET list == providersResult.value
                   IN /\ Len(list) = Len(fetched.value.data) + 1
                      /\ SubSeq(list, 1, Len(list) - 1) = fetched.value.data
                      /\ list[Len(list)] = HardCodedProvider
                      /\ fetched.value.data = registries.TDexRegistryTestnet
              ELSE /\ providersResult.value = fetched.value.data
                   /\ fetched.value.data = registries.TDexRegistryMainnet

\* A testnet call whose registry lists two providers, other than the mainnet
\* registry does: three are returned.
C24_Witness ==
    /\ registryPc = "returned"
    /\ network = "testnet"
    /\ Len(registries.TDexRegistryTestnet) = 2
    /\ registries.TDexRegistryTestnet # registries.TDexRegistryMainnet
    /\ Len(providersResult.value) = 3

(***************************************************************************)
(* getTradablesAssets (lines 312-331), and discoverBestOrder called for    *)
(* the asset and one of the assets it returned.                            *)
(***************************************************************************)
\* tradable.includes(x)
Includes(list, x) == x \in SeqRange(list)

\* Lines 314-321 and 322-329: one loop, over the markets from the i-th on;
\* the second test sees what the first pushed.
RECURSIVE tradableFrom(_, _, _, _)
tradableFrom(mkts, i, asset, pushed) ==
    IF i > Len(mkts) THEN pushed
    ELSE LET market == mkts[i]
             afterQuote ==
                 IF asset = market.baseAsset /\ ~Includes(pushed, market.quoteAsset)
                 THEN Append(pushed, market.quoteAsset)
                 ELSE pushed
             afterBase ==
                 IF asset = market.quoteAsset /\ ~Includes(afterQuote, market.baseAsset)
                 THEN Append(afterQuote, market.baseAsset)
                 ELSE afterQuote
         IN tradableFrom(mkts, i + 1, asset, afterBase)

\* A slip that leaves the V2 markets out.
getTradablesAssetsOfV1(mkts, asset) == tradableFrom(mkts.v1, 1, asset, <<>>)

getTradablesAssets(mkts, asset) ==
    tradableFrom(mkts.v2, 1, asset, tradableFrom(mkts.v1, 1, asset, <<>>))

CallGetTradablesAssets ==
    /\ tradablesPc = "start"
    /\ tradable' = getTradablesAssets(markets, sendAsset)
    /\ tradablesPc' = "returned"
    /\ UNCHANGED <<inputs, pureCall, selector, arrived, resolver, executor, catalog,
                   previewer, registry, withdrawal>>

\* The caller takes one of the assets returned as the asset to receive.
PickTradable ==
    /\ tradablesPc = "returned"
    /\ \E x \in SeqRange(tradable) : receiveAsset' = x
    /\ tradablesPc' = "picked"
    /\ UNCHANGED <<markets, sendAsset, pureCall, selector, arrived, resolver, executor,
                   catalog, previewer, registry, withdrawal, tradable>>

\* discoverBestOrder(markets, asset, x)
DiscoverBestOrderOfTradable ==
    /\ tradablesPc = "picked"
    /\ CallDiscoverBestOrder

InitTradables ==
    /\ markets \in [v1 : MarketLists(Pairs, MaxMarkets), v2 : MarketLists(Pairs, MaxMarkets)]
    /\ sendAsset \in AssetArgs
    /\ receiveAsset = NoAsset
    /\ called = "none"
    /\ trades = <<>>
    /\ SelectorIdle
    /\ arrived = <<>>
    /\ ResolverIdle
    /\ ExecutorIdle
    /\ CatalogIdle
    /\ PreviewerIdle
    /\ RegistryIdle
    /\ WithdrawalIdle
    /\ tradable = <<>>
    /\ tradablesPc = "start"

NextTradables ==
    \/ CallGetTradablesAssets
    \/ PickTradable
    \/ DiscoverBestOrderOfTradable

SpecTradables == InitTradables /\ [][NextTradables]_vars

(***************************************************************************)
(* Properties of getTradablesAssets, checked under SpecTradables.          *)
(***************************************************************************)
\* Some V1 or V2 market pairs a with x, one way or the other.
Paired(a, x) ==
    \E m \in SeqRange(markets.v1) \cup SeqRange(markets.v2) :
        \/ m.baseAsset = a /\ m.quoteAsset = x
        \/ m.quoteAsset = a /\ m.baseAsset = x

\* C25: the list getTradablesAssets returns has no asset twice and holds x
\* exactly when a market of either version pairs the asset with x; and
\* discoverBestOrder for the asset and an x of the list finds a candidate
\* and throws nothing.
C25_TradablesArePaired ==
    /\ tradablesPc \in {"returned", "picked"} =>
           /\ \A j, k \in 1..Len(tradable) : tradable[j] = tradable[k] => j = k
           /\ \A x \in AssetArgs : Includes(tradable, x) <=> Paired(sendAsset, x)
    /\ (tradablesPc = "picked" /\ pc # "start") =>
           /\ pc = "closure"
           /\ thrown = "none"
           /\ Len(allPossibleOrdersV1) + Len(allPossibleOrdersV2) >= 1

\* Two assets tradable, the second through a V2 market only, with a pair
\* listed twice; discoverBestOrder for the second found its candidates.
C25_Witness ==
    /\ tradablesPc = "picked"
    /\ pc = "closure"
    /\ Len(tradable) = 2
    /\ receiveAsset = tradable[2]
    /\ markets.v1 # <<>>
    /\ ~\E m \in SeqRange(markets.v1) :
            {m.baseAsset, m.quoteAsset} = {sendAsset, receiveAsset}
    /\ Len(markets.v2) = 2
    /\ markets.v2[1].baseAsset = markets.v2[2].baseAsset
    /\ markets.v2[1].quoteAsset = markets.v2[2].quoteAsset

(***************************************************************************)
(* The Withdrawal page: isValid (lines 113-117) and createTxAndBroadcast   *)
(* (lines 119-175).  The services it awaits are outside the page; each is  *)
(* a call that resolves or rejects.                                        *)
(***************************************************************************)
\* The amounts typed or passed in location.state; "x" is not a number.
Amounts == {"", "0", "1", "x"}

\* balances?.[asset_id].value: Undefined when there are no balances.
BalanceValues == {Undefined, [type |-> "number", value |-> 0], [type |-> "number", value |-> 5]}

Forms ==
    [error : {"", "Amount is greater than your balance"},
     balance : BalanceValues,
     amount : Amounts,
     recipientAddress : {"", "address"},
     encryptedMnemonic : {Undefined, [type |-> "string", value |-> "encrypted"]}]

\* new Decimal(amount || '0') throws on a string that is not a number.
DecimalThrows(text) == text = "x"

DecimalOf(text) == IF text = "1" THEN 1 ELSE 0

\* !balances?.[asset_id].value
NoBalanceValue(balance) == balance = Undefined \/ balance.value = 0

\* isValid(): "true", "false", or "threw" when Decimal throws.
isValid(fields) ==
    IF fields.error # "" THEN "false"
    ELSE IF NoBalanceValue(fields.balance) THEN "false"
    ELSE IF DecimalThrows(fields.amount) THEN "threw"
    ELSE IF DecimalOf(fields.amount) <= 0 THEN "false"
    ELSE IF fields.recipientAddress # "" THEN "true"
    ELSE "false"

WithdrawTxError == "WithdrawTxError"

Event(name, how) == [step |-> name, event |-> how]

\* A slip that signs before it blinds.
NextStepSignFirst(name) ==
    CASE name = "decrypt" -> "makeSendPset"
      [] name = "makeSendPset" -> "fromPin"
      [] name = "fromPin" -> "signPset"
      [] name = "signPset" -> "blindPset"
      [] name = "blindPset" -> "finalizeAndExtract"
      [] name = "finalizeAndExtract" -> "broadcastTransaction"
      [] OTHER -> "none"

\* The call that follows the return of a step (lines 126, 135-147).
NextStep(name) ==
    CASE name = "decrypt" -> "makeSendPset"
      [] name = "makeSendPset" -> "blindPset"
      [] name = "blindPset" -> "fromPin"
      [] name = "fromPin" -> "signPset"
      [] name = "signPset" -> "finalizeAndExtract"
      [] name = "finalizeAndExtract" -> "broadcastTransaction"
      [] OTHER -> "none"

\* The steps createTxAndBroadcast awaits.
AwaitedSteps == {"decrypt", "makeSendPset", "blindPset", "fromPin", "signPset", "broadcastTransaction"}

\* Lines 161-173: the catch block, then the finally block.
CaughtAndEnds(log) ==
    /\ journal' = log
    /\ isWrongPin' = "true"
    /\ timers' = timers \cup {"PIN_TIMEOUT_FAILURE"}
    /\ toasts' = Append(toasts, WithdrawTxError)
    /\ modalOpen' = FALSE
    /\ loading' = FALSE
    /\ awaiting' = NoPromise
    /\ withdrawPc' = "ended"
    /\ UNCHANGED <<replaced, isFetchingUtxos>>

\* Lines 119-127: up to the first await.
CallCreateTxAndBroadcast ==
    /\ withdrawPc = "start"
    /\ LET valid == isValid(form)
       IN CASE valid = "false" ->
                 \* line 121 returns; lines 171-174
                 /\ journal' = Append(journal, Event("isValid", "refused"))
                 /\ modalOpen' = FALSE
                 /\ loading' = FALSE
                 /\ awaiting' = NoPromise
                 /\ withdrawPc' = "ended"
                 /\ UNCHANGED <<isWrongPin, timers, toasts, replaced, isFetchingUtxos>>
            [] valid = "threw" ->
                 CaughtAndEnds(Append(journal, Event("isValid", "threw")))
            [] valid = "true" /\ form.encryptedMnemonic = Undefined ->
                 \* line 125 throws, line 133 throws IncorrectPINError
                 CaughtAndEnds(Append(journal, Event("isValid", "returned")))
            [] OTHER ->
                 /\ loading' = TRUE
                 /\ journal' = journal \o <<Event("isValid", "returned"), Event("decrypt", "called")>>
                 /\ awaiting' = Pending
                 /\ withdrawPc' = "decrypt"
                 /\ UNCHANGED <<modalOpen, isWrongPin, timers, toasts, replaced, isFetchingUtxos>>
    /\ UNCHANGED <<core, previewer, registry, tradables, form, needReset>>

\* The service awaited answers or fails.
WithdrawStepSettles ==
    /\ withdrawPc \in AwaitedSteps
    /\ awaiting = Pending
    /\ \E ok \in BOOLEAN :
           awaiting' = IF ok THEN Fulfilled(withdrawPc) ELSE Rejected(withdrawPc)
    /\ UNCHANGED <<core, previewer, registry, tradables, form, withdrawPc, journal, loading,
                   modalOpen, isWrongPin, needReset, timers, toasts, replaced, isFetchingUtxos>>

\* The code after an await, up to the next one or to the end of the call.
ResumeCreateTxAndBroadcast ==
    /\ withdrawPc \in AwaitedSteps
    /\ Settled(awaiting)
    /\ LET returned == Append(journal, Event(withdrawPc, "returned"))
           next == NextStep(withdrawPc)
       IN IF awaiting.state = "rejected"
          THEN CaughtAndEnds(Append(journal, Event(withdrawPc, "threw")))
          ELSE IF withdrawPc = "broadcastTransaction"
          THEN \* lines 150-160, 171-174
               /\ journal' = returned
               /\ toasts' = Append(toasts, "Transaction broadcasted")
               /\ isFetchingUtxos' = TRUE
               /\ replaced' = [type |-> "route", address |-> form.recipientAddress,
                               amount |-> form.amount]
               /\ modalOpen' = FALSE
               /\ loading' = FALSE
               /\ awaiting' = NoPromise
               /\ withdrawPc' = "ended"
               /\ UNCHANGED <<isWrongPin, timers>>
          ELSE IF next = "finalizeAndExtract"
          THEN \* line 140 is not awaited: it returns or throws at once
               \E ok \in BOOLEAN :
                   IF ok
                   THEN /\ journal' = returned \o <<Event(next, "called"), Event(next, "returned"),
                                                    Event(NextStep(next), "called")>>
                        /\ awaiting' = Pending
                        /\ withdrawPc' = NextStep(next)
                        /\ UNCHANGED <<loading, modalOpen, isWrongPin, timers, toasts, replaced,
                                       isFetchingUtxos>>
                   ELSE CaughtAndEnds(returned \o <<Event(next, "called"), Event(next, "threw")>>)
          ELSE /\ journal' = Append(returned, Event(next, "called"))
               /\ awaiting' = Pending
               /\ withdrawPc' = next
               /\ IF withdrawPc = "decrypt"
                  THEN \* lines 127-131
                       /\ isWrongPin' = "false"
                       /\ timers' = timers \cup {"PIN_TIMEOUT_SUCCESS"}
                  ELSE UNCHANGED <<isWrongPin, timers>>
               /\ UNCHANGED <<loading, modalOpen, toasts, replaced, isFetchingUtxos>>
    /\ UNCHANGED <<core, previewer, registry, tradables, form, needReset>>

\* Lines 128-131 and 165-168: a setTimeout callback runs.
PinTimeoutFires ==
    /\ \E timer \in timers : timers' = timers \ {timer}
    /\ isWrongPin' = "null"
    /\ needReset' = TRUE
    /\ UNCHANGED <<core, previewer, registry, tradables, form, withdrawPc, journal, awaiting,
                   loading, modalOpen, toasts, replaced, isFetchingUtxos>>

\* The PIN modal is open when it calls onConfirm (line 185).
InitWithdrawal ==
    /\ CoreIdle
    /\ PreviewerIdle
    /\ RegistryIdle
    /\ TradablesIdle
    /\ form \in Forms
    /\ withdrawPc = "start"
    /\ journal = <<>>
    /\ awaiting = NoPromise
    /\ loading = FALSE
    /\ modalOpen = TRUE
    /\ isWrongPin = "null"
    /\ needReset = FALSE
    /\ timers = {}
    /\ toasts = <<>>
    /\ replaced = Undefined
    /\ isFetchingUtxos = FALSE

NextWithdrawal ==
    \/ CallCreateTxAndBroadcast
    \/ WithdrawStepSettles
    \/ ResumeCreateTxAndBroadcast
    \/ PinTimeoutFires

SpecWithdrawal == InitWithdrawal /\ [][NextWithdrawal]_vars

(***************************************************************************)
(* Properties of createTxAndBroadcast, checked under SpecWithdrawal.       *)
(***************************************************************************)
\* The places of the journal where the step was called.
CalledAt(name) == {k \in 1..Len(journal) : journal[k] = Event(name, "called")}

ReturnedAt(name) == {k \in 1..Len(journal) : journal[k] = Event(name, "returned")}

\* The order the claim gives to the steps.
StepOrder == <<"makeSendPset", "blindPset", "signPset", "finalizeAndExtract", "broadcastTransaction">>

\* C26: a call broadcasts at most once, and only after isValid returned true
\* and decrypt resolved; the send PSET is built, blinded, signed, finalized
\* and broadcast in that order, each step after the one before returned;
\* nothing is called after a step failed; and the call ends with the PIN
\* modal closed and loading false.
C26_BroadcastOnceInOrderAndFlagsReset ==
    /\ Cardinality(CalledAt("broadcastTransaction")) <= 1
    /\ \A b \in CalledAt("broadcastTransaction") :
           /\ \E v \in ReturnedAt("isValid") : v < b
           /\ \E d \in ReturnedAt("decrypt") : d < b
    /\ \A n \in 1..Len(StepOrder) :
           /\ Cardinality(CalledAt(StepOrder[n])) <= 1
           /\ n > 1 =>
                  \A c \in CalledAt(StepOrder[n]) :
                      \E r \in ReturnedAt(StepOrder[n - 1]) : r < c
    /\ \A k \in 1..Len(journal) : journal[k].event = "threw" => k = Len(journal)
    /\ withdrawPc = "ended" => ~modalOpen /\ ~loading

\* A call that went through every step and broadcast, ended.
C26_Witness ==
    /\ withdrawPc = "ended"
    /\ CalledAt("broadcastTransaction") # {}
    /\ ReturnedAt("broadcastTransaction") # {}
    /\ replaced # Undefined
    /\ ~modalOpen
    /\ ~loading

====
